---- MODULE Spec2Model ----
(***************************************************************************)
(* GITRIS-backend: the Tetris rules engine, the per-room game loop and the *)
(* session / connection manager, as a state machine.                       *)
(*                                                                         *)
(* Time is a clock `now` in milliseconds.  Pointers are modelled by        *)
(* identity: a GameSession is a slot of `heap`, a Client is a slot of      *)
(* `cl`; the registries hold slot numbers (0 = no entry).                  *)
(***************************************************************************)
EXTENDS Integers, Sequences, FiniteSets, TLC

Nil == [nil |-> TRUE]

Max(a, b) == IF a >= b THEN a ELSE b

(***************************************************************************)
(* internal/models/tetris: board.go, tetrimino.go                          *)
(***************************************************************************)
BoardWidth == 10
BoardHeight == 20

BlockEmpty == 0

TypeI == 0
TypeO == 1
TypeT == 2
TypeS == 3
TypeZ == 4
TypeJ == 5
TypeL == 6

PieceTypes == {TypeI, TypeO, TypeT, TypeS, TypeZ, TypeJ, TypeL}

\* pieceShapes[type][rotIdx + 1][block] = <<x, y>>
pieceShapes ==
  [t \in PieceTypes |->
     CASE t = TypeI -> << << <<0,1>>, <<1,1>>, <<2,1>>, <<3,1>> >>,
                          << <<2,0>>, <<2,1>>, <<2,2>>, <<2,3>> >>,
                          << <<0,2>>, <<1,2>>, <<2,2>>, <<3,2>> >>,
                          << <<1,0>>, <<1,1>>, <<1,2>>, <<1,3>> >> >>
       [] t = TypeO -> << << <<0,0>>, <<1,0>>, <<0,1>>, <<1,1>> >> >>
       [] t = TypeT -> << << <<1,0>>, <<0,1>>, <<1,1>>, <<2,1>> >>,
                          << <<1,0>>, <<1,1>>, <<2,1>>, <<1,2>> >>,
                          << <<0,1>>, <<1,1>>, <<2,1>>, <<1,2>> >>,
                          << <<0,1>>, <<1,0>>, <<1,1>>, <<1,2>> >> >>
       [] t = TypeS -> << << <<1,0>>, <<2,0>>, <<0,1>>, <<1,1>> >>,
                          << <<1,0>>, <<1,1>>, <<2,1>>, <<2,2>> >>,
                          << <<1,1>>, <<2,1>>, <<0,2>>, <<1,2>> >>,
                          << <<0,0>>, <<0,1>>, <<1,1>>, <<1,2>> >> >>
       [] t = TypeZ -> << << <<0,0>>, <<1,0>>, <<1,1>>, <<2,1>> >>,
                          << <<2,0>>, <<1,1>>, <<2,1>>, <<1,2>> >>,
                          << <<0,1>>, <<1,1>>, <<1,2>>, <<2,2>> >>,
                          << <<1,0>>, <<0,1>>, <<1,1>>, <<0,2>> >> >>
       [] t = TypeJ -> << << <<0,0>>, <<0,1>>, <<1,1>>, <<2,1>> >>,
                          << <<1,0>>, <<2,0>>, <<1,1>>, <<1,2>> >>,
                          << <<0,1>>, <<1,1>>, <<2,1>>, <<2,2>> >>,
                          << <<1,0>>, <<1,1>>, <<0,2>>, <<1,2>> >> >>
       [] t = TypeL -> << << <<2,0>>, <<0,1>>, <<1,1>>, <<2,1>> >>,
                          << <<1,0>>, <<1,1>>, <<1,2>>, <<2,2>> >>,
                          << <<0,1>>, <<1,1>>, <<2,1>>, <<0,2>> >>,
                          << <<0,0>>, <<1,0>>, <<1,1>>, <<1,2>> >> >>]

\* Piece.GetBlocksAtRotation: rotation / 90 indexes the shape table.
ShapeAt(shapeData, pieceType, rotIdx) ==
  IF pieceType = TypeO THEN shapeData[1]
  ELSE IF rotIdx < 0 \/ rotIdx >= Len(shapeData) THEN shapeData[1]
  ELSE shapeData[rotIdx + 1]

GetBlocksAtRotation(p, rotation) ==
  ShapeAt(pieceShapes[p.Type], p.Type, rotation \div 90)

Blocks(p) == GetBlocksAtRotation(p, p.Rotation)

Rows == 0 .. (BoardHeight - 1)
Cols == 0 .. (BoardWidth - 1)

EmptyRow == [x \in Cols |-> BlockEmpty]

NewBoard == [y \in Rows |-> EmptyRow]

\* the loop of HasCollision over the blocks, the piece moved to (px, py)
BlocksCollide(b, blocks, px, py) ==
  \E i \in 1..Len(blocks) :
    LET x == px + blocks[i][1]
        y == py + blocks[i][2]
    IN \/ x < 0
       \/ x >= BoardWidth
       \/ y >= BoardHeight
       \/ (y >= 0 /\ b[y][x] # BlockEmpty)

HasCollision(b, p, dx, dy) == BlocksCollide(b, Blocks(p), p.X + dx, p.Y + dy)

\* the loop of MergePiece over the blocks
MergeBlocks(b, p, blocks) ==
  [y \in Rows |-> [x \in Cols |->
     IF \E i \in 1..Len(blocks) :
          /\ p.X + blocks[i][1] = x
          /\ p.Y + blocks[i][2] = y
     THEN p.Type + 1
     ELSE b[y][x]]]

MergePiece(b, p) == MergeBlocks(b, p, Blocks(p))

\* The per-cell score map is keyed "y_x" in the code; the key is the pair <<y, x>>.
ScoreKey(y, x) == <<y, x>>

RECURSIVE LineScoreFromNoFallback(_, _, _, _)
\* LineScoreFrom with nothing paid for a cell the map does not record
LineScoreFromNoFallback(b, scores, y, x) ==
  IF x >= BoardWidth THEN [full |-> TRUE, score |-> 0]
  ELSE IF b[y][x] = BlockEmpty THEN [full |-> FALSE, score |-> 0]
  ELSE LET rest == LineScoreFromNoFallback(b, scores, y, x + 1)
           here == IF ScoreKey(y, x) \in DOMAIN scores
                   THEN scores[ScoreKey(y, x)] ELSE 0
       IN [full |-> rest.full, score |-> here + rest.score]

RECURSIVE LineScoreFrom(_, _, _, _)
\* the inner loop of ClearLines: stops at the first empty cell of the row
LineScoreFrom(b, scores, y, x) ==
  IF x >= BoardWidth THEN [full |-> TRUE, score |-> 0]
  ELSE IF b[y][x] = BlockEmpty THEN [full |-> FALSE, score |-> 0]
  ELSE LET rest == LineScoreFrom(b, scores, y, x + 1)
           here == IF ScoreKey(y, x) \in DOMAIN scores
                   THEN scores[ScoreKey(y, x)] ELSE 10
       IN [full |-> rest.full, score |-> here + rest.score]

RECURSIVE ClearLinesFromInPlace(_, _, _, _, _, _, _)
\* ClearLinesFrom that leaves the rows it keeps where they were
ClearLinesFromInPlace(b, scores, y, destY, newBoard, clearedLines, totalScore) ==
  IF y < 0 THEN [Board |-> newBoard, clearedLines |-> clearedLines,
                 totalScore |-> totalScore]
  ELSE LET line == LineScoreFrom(b, scores, y, 0)
       IN IF line.full
          THEN ClearLinesFromInPlace(b, scores, y - 1, destY, newBoard,
                                     clearedLines + 1, totalScore + line.score)
          ELSE ClearLinesFromInPlace(b, scores, y - 1, destY - 1,
                                     [newBoard EXCEPT ![y] = b[y]],
                                     clearedLines, totalScore)

RECURSIVE ClearLinesFrom(_, _, _, _, _, _, _)
\* the outer loop of ClearLines, y from BoardHeight-1 down to 0
ClearLinesFrom(b, scores, y, destY, newBoard, clearedLines, totalScore) ==
  IF y < 0 THEN [Board |-> newBoard, clearedLines |-> clearedLines,
                 totalScore |-> totalScore]
  ELSE LET line == LineScoreFrom(b, scores, y, 0)
       IN IF line.full
          THEN ClearLinesFrom(b, scores, y - 1, destY, newBoard,
                              clearedLines + 1, totalScore + line.score)
          ELSE ClearLinesFrom(b, scores, y - 1, destY - 1,
                              [newBoard EXCEPT ![destY] = b[y]],
                              clearedLines, totalScore)

ClearLines(b, scores) ==
  ClearLinesFrom(b, scores, BoardHeight - 1, BoardHeight - 1, NewBoard, 0, 0)

(***************************************************************************)
(* internal/services/tetris: game_logic.go, game state (PlayerGameState)   *)
(***************************************************************************)
InitialFallInterval == 600
GameTimeLimit == 100000
LevelUpLines == 5

GetFallInterval(level) ==
  LET interval == InitialFallInterval - (level - 1) * 40
  IN IF interval < 100 THEN 100 ELSE interval

spawnPieceAtCenter(pieceType) ==
  IF pieceType = TypeI THEN <<BoardWidth \div 2 - 2, 1>>
  ELSE <<BoardWidth \div 2 - 1, 1>>

\* a generatePieceQueue that appends the shuffled bag as it is
generatePieceQueueNoSwap(s, rnd) ==
  [s EXCEPT !.pieceQueue = s.pieceQueue \o rnd.bag]

\* A shuffle outcome: the shuffled bag and the index drawn for the swap.
\* generatePieceQueue appends it to the queue, after the anti-repeat swap.
generatePieceQueue(s, rnd) ==
  LET bag == rnd.bag
      hasLastPiece == Len(s.pieceQueue) > 0
      adjusted ==
        IF hasLastPiece /\ bag[1] = s.pieceQueue[Len(s.pieceQueue)]
        THEN [bag EXCEPT ![1] = bag[rnd.swapIndex + 1],
                         ![rnd.swapIndex + 1] = bag[1]]
        ELSE bag
  IN [s EXCEPT !.pieceQueue = s.pieceQueue \o adjusted]

\* getPieceScoreFromDeck: the first placement of the type; keys use the
\* rotation index 0..3 handed to GetBlocksAtRotation.
RotKey(rotation, x, y) == <<rotation, x, y>>

DeckPieceOf(s, pieceType) ==
  LET idx == {i \in 1..Len(s.DeckPlacements) : s.DeckPlacements[i].Type = pieceType}
  IN IF idx = {} THEN Nil
     ELSE s.DeckPlacements[CHOOSE i \in idx : \A j \in idx : i <= j]

PlainPiece(pieceType) ==
  [Type |-> pieceType, X |-> 0, Y |-> 0, Rotation |-> 0, ScoreData |-> <<>>]

\* the key of block i of the shape at rotation index r
ShapeKeyAt(r, blocks, i) == RotKey(r, blocks[i][1], blocks[i][2])

ShapeKey(proto, r, i) == ShapeKeyAt(r, GetBlocksAtRotation(proto, r), i)

\* the score of block i of the placement, 100 when the placement has fewer
DeckBlockScore(sel, i) ==
  IF i <= Len(sel.Blocks) THEN sel.Blocks[i].Score ELSE 100

\* the loops over the four rotations and the four blocks; later blocks
\* overwrite earlier ones under the same key
DeckScoreData(sel, proto) ==
  IF sel = Nil THEN Nil
  ELSE [proto EXCEPT !.ScoreData =
          [k \in {ShapeKey(proto, r, i) : r \in 0..3, i \in 1..4} |->
             DeckBlockScore(sel,
               CHOOSE i \in 1..4 :
                 /\ \E r \in 0..3 : k = ShapeKey(proto, r, i)
                 /\ \A j \in 1..4 :
                      (\E r \in 0..3 : k = ShapeKey(proto, r, j)) => j <= i)]]

getPieceScoreFromDeck(s, pieceType) ==
  IF Len(s.DeckPlacements) = 0 THEN Nil
  ELSE DeckScoreData(DeckPieceOf(s, pieceType), PlainPiece(pieceType))

\* the piece handed out: the deck's piece of the type, or a plain one
DeckPieceOrPlain(deckPiece, pieceType) ==
  IF deckPiece # Nil THEN deckPiece ELSE PlainPiece(pieceType)

PopPieceOfType(s2, pieceType) ==
  [state |-> s2,
   piece |-> DeckPieceOrPlain(getPieceScoreFromDeck(s2, pieceType), pieceType)]

PopPiece(s1) ==
  PopPieceOfType([s1 EXCEPT !.pieceQueue = Tail(s1.pieceQueue)], Head(s1.pieceQueue))

\* GetNextPieceFromQueue: refill when fewer than 7 remain, pop the head.
GetNextPieceFromQueue(s, rnd) ==
  PopPiece(IF Len(s.pieceQueue) < 7 THEN generatePieceQueue(s, rnd) ELSE s)

\* the loop of updateCurrentPieceScores over the blocks of the piece
CurrentPieceScoresOf(s, p, blocks) ==
  LET inb == {i \in 1..Len(blocks) :
                /\ p.X + blocks[i][1] >= 0
                /\ p.X + blocks[i][1] < BoardWidth
                /\ p.Y + blocks[i][2] >= 0
                /\ p.Y + blocks[i][2] < BoardHeight}
      keyOf(i) == ScoreKey(p.Y + blocks[i][2], p.X + blocks[i][1])
      rotKeyOf(i) == RotKey(p.Rotation, blocks[i][1], blocks[i][2])
      scoreOf(i) ==
        IF rotKeyOf(i) \in DOMAIN p.ScoreData /\ p.ScoreData[rotKeyOf(i)] > 0
        THEN p.ScoreData[rotKeyOf(i)]
        ELSE IF keyOf(i) \in DOMAIN s.ContributionScores
             THEN s.ContributionScores[keyOf(i)]
             ELSE 100
  IN [k \in {keyOf(i) : i \in inb} |-> scoreOf(CHOOSE i \in inb : keyOf(i) = k)]

updateCurrentPieceScores(s) ==
  IF s.CurrentPiece = Nil THEN s
  ELSE [s EXCEPT !.CurrentPieceScores =
          CurrentPieceScoresOf(s, s.CurrentPiece, Blocks(s.CurrentPiece))]

PlacedAtCenter(piece, xy) ==
  [piece EXCEPT !.X = xy[1], !.Y = xy[2], !.Rotation = 0]

\* the end of SpawnNewPiece: game over when the new piece collides
SpawnCollisionCheck(s1, cur) ==
  IF HasCollision(s1.Board, cur, 0, 0)
  THEN [s1 EXCEPT !.IsGameOver = TRUE]
  ELSE s1

SpawnPlaced(second, cur) ==
  SpawnCollisionCheck(
    updateCurrentPieceScores([second.state EXCEPT !.CurrentPiece = cur,
                                                  !.NextPiece = second.piece,
                                                  !.hasUsedHold = FALSE]),
    cur)

SpawnAfterFirst(first, rnd) ==
  SpawnPlaced(GetNextPieceFromQueue(first.state, rnd),
              PlacedAtCenter(first.piece, spawnPieceAtCenter(first.piece.Type)))

SpawnNewPiece(s, rnd) ==
  SpawnAfterFirst(IF s.CurrentPiece = Nil
                  THEN GetNextPieceFromQueue(s, rnd)
                  ELSE [state |-> s, piece |-> s.NextPiece],
                  rnd)

\* the loop of updateContributionScoresFromPiece over the blocks
ContributionScoresWith(s, piece, blocks) ==
  LET rotKeyOf(i) == RotKey(piece.Rotation, blocks[i][1], blocks[i][2])
      keyOf(i) == ScoreKey(piece.Y + blocks[i][2], piece.X + blocks[i][1])
      hit == {i \in 1..Len(blocks) :
                /\ piece.X + blocks[i][1] >= 0
                /\ piece.X + blocks[i][1] < BoardWidth
                /\ piece.Y + blocks[i][2] >= 0
                /\ piece.Y + blocks[i][2] < BoardHeight
                /\ rotKeyOf(i) \in DOMAIN piece.ScoreData
                /\ piece.ScoreData[rotKeyOf(i)] > 0}
  IN [k \in (DOMAIN s.ContributionScores) \cup {keyOf(i) : i \in hit} |->
        IF \E i \in hit : keyOf(i) = k
        THEN piece.ScoreData[rotKeyOf(CHOOSE j \in hit : keyOf(j) = k)]
        ELSE s.ContributionScores[k]]

updateContributionScoresFromPiece(s, piece) ==
  IF piece = Nil \/ DOMAIN piece.ScoreData = {} THEN s
  ELSE [s EXCEPT !.ContributionScores =
          ContributionScoresWith(s, piece, Blocks(piece))]

\* a CalculateScore that takes the back-to-back factor before the combo bonus
CalculateScoreFactorFirst(clearedLines, level, consecutiveClears, backToBack) ==
  LET baseScore == CASE clearedLines = 1 -> 100
                     [] clearedLines = 2 -> 300
                     [] clearedLines = 3 -> 500
                     [] clearedLines = 4 -> 800
                     [] OTHER -> 0
      factored == IF backToBack /\ clearedLines > 0
                  THEN (baseScore * level * 3) \div 2
                  ELSE baseScore * level
  IN factored + (IF consecutiveClears > 1
                 THEN 50 * (consecutiveClears - 1) * level ELSE 0)

CalculateScore(clearedLines, level, consecutiveClears, backToBack) ==
  LET baseScore == CASE clearedLines = 1 -> 100
                     [] clearedLines = 2 -> 300
                     [] clearedLines = 3 -> 500
                     [] clearedLines = 4 -> 800
                     [] OTHER -> 0
      withCombo == baseScore * level +
                   (IF consecutiveClears > 1
                    THEN 50 * (consecutiveClears - 1) * level ELSE 0)
  IN IF backToBack /\ clearedLines > 0
     THEN (withCombo * 3) \div 2
     ELSE withCombo

\* handlePieceLock after the lines are cleared: combo, back-to-back, level
LockCombo(s2, cleared) ==
  IF cleared.clearedLines > 0
  THEN [s2 EXCEPT
          !.Score = s2.Score + CalculateScore(cleared.clearedLines, s2.Level,
                                 s2.ConsecutiveClears, s2.BackToBack),
          !.ConsecutiveClears = s2.ConsecutiveClears + 1,
          !.BackToBack = (cleared.clearedLines = 4),
          !.Level = s2.LinesCleared \div LevelUpLines + 1]
  ELSE [s2 EXCEPT !.ConsecutiveClears = 0, !.BackToBack = FALSE]

\* a lock whose line clear takes the recorded scores down with the rows
LockClearedScoresFollow(s1, cleared) ==
  LET full(y) == \A x \in Cols : s1.Board[y][x] # BlockEmpty
      dest(y) == y + Cardinality({z \in Rows : z > y /\ full(z)})
      from(k) == {y \in Rows : ~full(y) /\ dest(y) = k[1]
                               /\ <<y, k[2]>> \in DOMAIN s1.ContributionScores}
  IN LockCombo([s1 EXCEPT !.Board = cleared.Board,
                          !.LinesCleared = s1.LinesCleared + cleared.clearedLines,
                          !.Score = s1.Score + cleared.totalScore,
                          !.ContributionScores =
                             [k \in DOMAIN s1.ContributionScores |->
                                IF from(k) # {}
                                THEN s1.ContributionScores[
                                       <<CHOOSE y \in from(k) : TRUE, k[2]>>]
                                ELSE s1.ContributionScores[k]]],
               cleared)

LockCleared(s1, cleared) ==
  LockCombo([s1 EXCEPT !.Board = cleared.Board,
                       !.LinesCleared = s1.LinesCleared + cleared.clearedLines,
                       !.Score = s1.Score + cleared.totalScore],
            cleared)

LockLines(s1) == LockCleared(s1, ClearLines(s1.Board, s1.ContributionScores))

handlePieceLock(s, rnd) ==
  SpawnNewPiece(LockLines(updateContributionScoresFromPiece(s, s.CurrentPiece)), rnd)

RECURSIVE DropDistanceFrom(_, _, _)
\* the hard_drop loop: the largest d with no collision at every offset 1..d
DropDistanceFrom(b, p, d) ==
  IF HasCollision(b, p, 0, d + 1) THEN d ELSE DropDistanceFrom(b, p, d + 1)

Unmoved(s) == [state |-> s, moved |-> FALSE]

\* a HardDropTo that pays one point per row
HardDropToSinglePoints(s, dropped, dropDistance, rnd) ==
  [state |-> handlePieceLock(
               [s EXCEPT !.CurrentPiece = dropped,
                         !.Score = s.Score + dropDistance,
                         !.Board = MergePiece(s.Board, dropped)],
               rnd),
   moved |-> dropDistance > 0]

\* case "hard_drop"
HardDropTo(s, dropped, dropDistance, rnd) ==
  [state |-> handlePieceLock(
               [s EXCEPT !.CurrentPiece = dropped,
                         !.Score = s.Score + dropDistance * 2,
                         !.Board = MergePiece(s.Board, dropped)],
               rnd),
   moved |-> dropDistance > 0]

HardDropBy(s, p, dropDistance, rnd) ==
  HardDropTo(s, [p EXCEPT !.Y = p.Y + dropDistance], dropDistance, rnd)

HardDrop(s, p, rnd) == HardDropBy(s, p, DropDistanceFrom(s.Board, p, 0), rnd)

\* a RotateTo that turns the piece without the collision test
RotateToUnchecked(s, q) ==
  [state |-> [s EXCEPT !.CurrentPiece = q], moved |-> TRUE]

\* cases "rotate_right" / "rotate" and "rotate_left"
RotateTo(s, q) ==
  IF HasCollision(s.Board, q, 0, 0) THEN Unmoved(s)
  ELSE [state |-> [s EXCEPT !.CurrentPiece = q], moved |-> TRUE]

\* case "hold"
HoldCollisionCheck(h) ==
  IF HasCollision(h.state.Board, h.state.CurrentPiece, 0, 0)
  THEN [state |-> [h.state EXCEPT !.IsGameOver = TRUE], moved |-> h.moved]
  ELSE h

HoldSwap(p, taken, incoming) ==
  [state |-> [taken.state EXCEPT
                !.hasUsedHold = TRUE,
                !.CurrentPiece =
                   PlacedAtCenter(incoming, spawnPieceAtCenter(incoming.Type)),
                !.NextPiece = taken.piece,
                !.HeldPiece = p],
   moved |-> TRUE]

\* a Hold that does not look at hasUsedHold
HoldEveryTime(s, p, rnd) ==
  HoldCollisionCheck(
    IF s.HeldPiece = Nil
    THEN HoldSwap(p, GetNextPieceFromQueue(s, rnd), s.NextPiece)
    ELSE HoldSwap(p, [state |-> s, piece |-> s.NextPiece], s.HeldPiece))

Hold(s, p, rnd) ==
  HoldCollisionCheck(
    IF s.hasUsedHold THEN Unmoved(s)
    ELSE IF s.HeldPiece = Nil
         THEN HoldSwap(p, GetNextPieceFromQueue(s, rnd), s.NextPiece)
         ELSE HoldSwap(p, [state |-> s, piece |-> s.NextPiece], s.HeldPiece))

\* the switch of ApplyPlayerInput
InputSwitch(s, p, action, rnd) ==
  CASE action \in {"left", "move_left"} ->
         IF ~HasCollision(s.Board, p, -1, 0)
         THEN [state |-> [s EXCEPT !.CurrentPiece.X = p.X - 1], moved |-> TRUE]
         ELSE Unmoved(s)
    [] action \in {"right", "move_right"} ->
         IF ~HasCollision(s.Board, p, 1, 0)
         THEN [state |-> [s EXCEPT !.CurrentPiece.X = p.X + 1], moved |-> TRUE]
         ELSE Unmoved(s)
    [] action \in {"down", "soft_drop"} ->
         IF ~HasCollision(s.Board, p, 0, 1)
         THEN [state |-> [s EXCEPT !.CurrentPiece.Y = p.Y + 1,
                                   !.Score = s.Score + 1],
               moved |-> TRUE]
         ELSE Unmoved(s)
    [] action = "hard_drop" -> HardDrop(s, p, rnd)
    [] action \in {"rotate_right", "rotate"} ->
         IF p.Type = TypeO THEN Unmoved(s)
         ELSE RotateTo(s, [p EXCEPT !.Rotation = (p.Rotation + 90) % 360])
    [] action = "rotate_left" ->
         IF p.Type = TypeO THEN Unmoved(s)
         ELSE RotateTo(s, [p EXCEPT !.Rotation = (p.Rotation - 90 + 360) % 360])
    [] action = "hold" -> Hold(s, p, rnd)
    [] OTHER -> Unmoved(s)

\* ... and what follows it when the piece moved
AfterInput(r, action) ==
  IF r.moved /\ r.state.CurrentPiece # Nil /\ action # "hard_drop"
  THEN [state |-> updateCurrentPieceScores(r.state), moved |-> r.moved]
  ELSE r

\* ApplyPlayerInput returns the new state and the `moved` flag.
ApplyPlayerInput(s, action, rnd) ==
  IF s.IsGameOver \/ s.CurrentPiece = Nil THEN Unmoved(s)
  ELSE AfterInput(InputSwitch(s, s.CurrentPiece, action, rnd), action)

\* AutoFall at clock value `at`.
AutoFall(s, at, rnd) ==
  IF s.IsGameOver \/ s.CurrentPiece = Nil THEN s
  ELSE LET fallInterval == GetFallInterval(s.Level)
           timePassed == at - s.lastFallTime
       IN IF timePassed >= fallInterval \/ timePassed = 0
          THEN IF ~HasCollision(s.Board, s.CurrentPiece, 0, 1)
               THEN [s EXCEPT !.CurrentPiece.Y = s.CurrentPiece.Y + 1,
                              !.lastFallTime = at]
               ELSE [handlePieceLock(
                       [s EXCEPT !.Board = MergePiece(s.Board, s.CurrentPiece)], rnd)
                     EXCEPT !.lastFallTime = at]
          ELSE s

\* buildContributionScoresFromDeck: 100 everywhere, then the placements'
\* block scores at their own (x, y), later blocks overwriting earlier ones.
RECURSIVE ApplyDeckBlocks(_, _)
ApplyDeckBlocks(scores, blocks) ==
  IF blocks = <<>> THEN scores
  ELSE LET b == Head(blocks)
           next == IF b.X >= 0 /\ b.X < BoardWidth /\ b.Y >= 0 /\ b.Y < BoardHeight
                   THEN [scores EXCEPT ![ScoreKey(b.Y, b.X)] = b.Score]
                   ELSE scores
       IN ApplyDeckBlocks(next, Tail(blocks))

RECURSIVE AllDeckBlocks(_)
AllDeckBlocks(placements) ==
  IF placements = <<>> THEN <<>>
  ELSE Head(placements).Blocks \o AllDeckBlocks(Tail(placements))

buildContributionScoresFromDeck(placements) ==
  ApplyDeckBlocks([k \in {ScoreKey(y, x) : y \in Rows, x \in Cols} |-> 100],
                  AllDeckBlocks(placements))

\* NewPlayerGameStateWithDeckPlacements at clock value `at`; rnd1 is the
\* shuffle of the first bag, rnd2 the shuffle of the refill done by the
\* first SpawnNewPiece.
NewPlayerGameStateWithDeckPlacements(userID, placements, at, rnd1, rnd2) ==
  LET s0 == [UserID |-> userID,
             Board |-> NewBoard,
             CurrentPiece |-> Nil,
             NextPiece |-> Nil,
             HeldPiece |-> Nil,
             Score |-> 0,
             LinesCleared |-> 0,
             Level |-> 1,
             IsGameOver |-> FALSE,
             pieceQueue |-> <<>>,
             lastFallTime |-> at,
             ContributionScores |-> buildContributionScoresFromDeck(placements),
             CurrentPieceScores |-> <<>>,
             DeckPlacements |-> placements,
             ConsecutiveClears |-> 0,
             BackToBack |-> FALSE,
             hasUsedHold |-> FALSE]
  IN SpawnNewPiece(generatePieceQueue(s0, rnd1), rnd2)

(***************************************************************************)
(* Session manager: bounds of the model                                    *)
(***************************************************************************)
\* participants and passphrases the environment may use
UserSeq == <<"A", "B", "C">>
PasscodeSeq == <<"hello", "xyz123">>
Users == {UserSeq[i] : i \in DOMAIN UserSeq}
Passcodes == {PasscodeSeq[i] : i \in DOMAIN PasscodeSeq}
BadPasscodes == {"", "ab", "abcdefghijklmnopqrstu"}

MaxSessions == 2       \* GameSession objects ever allocated
SessionGens == 2       \* ... and under one passphrase
MaxClients == 3        \* Client objects ever allocated
ClientGens == 2        \* ... and for one user
MaxFrames == 1         \* input frames read by all read pumps together
MaxAdvances == 1       \* steps of the clock
MaxRaces == 1          \* stimuli that arrive while the manager is still busy

\* clock steps: below the gravity interval and the throttle window, the
\* grace delay, and past the time limit
TimeSteps == {1000}

\* frames a client may send
InputActions == {"move_left", "move_right", "rotate", "rotate_left",
                 "soft_drop", "hard_drop", "hold", "bogus"}

\* outcomes of rand.Shuffle / rand.Intn explored, and decks the repository holds
Shuffles == { [bag |-> <<TypeI, TypeO, TypeT, TypeS, TypeZ, TypeJ, TypeL>>,
               swapIndex |-> 1] }
DeckChoices == { <<>> }

ALLOW_SAME_USER_JOIN == FALSE

ZeroTime == -1
minBroadcastInterval == 1000
tickInterval == 1000
graceDelay == 2000
ChannelCap == 512

VARIABLES
  now,            \* the clock, ms
  heap,           \* GameSession objects: [1..MaxSessions -> session | Nil]
  sessions,       \* sm.sessions: [Passcodes -> 0..MaxSessions]
  cl,             \* Client objects: [1..MaxClients -> client | Nil]
  clients,        \* sm.clients: [Users -> 0..MaxClients]
  lastBroadcast,  \* sm.lastBroadcast: [Passcodes -> time | ZeroTime]
  broadcast,      \* sm.broadcast channel: sequence of room ids
  inputEvents,    \* sm.inputEvents channel: sequence of [UserID, Action]
  registering,    \* RegisterClient calls blocked on `sm.register <- client`
  loop,           \* the central loop: where it is and what it holds
  tasks,          \* goroutines spawned and not yet finished
  nextTick,       \* when the ticker fires next
  results,        \* resultRepo: the rows CreateResult has stored
  budget          \* [frames, advances, races]: what the bounds have left

vars == <<now, heap, sessions, cl, clients, lastBroadcast, broadcast,
          inputEvents, registering, loop, tasks, nextTick, results,
          budget>>

\* object identities: the g-th session of a passphrase, the g-th client of a user
SessionIds == 1..(Len(PasscodeSeq) * SessionGens)
ClientIds == 1..(Len(UserSeq) * ClientGens)

IndexIn(seq, x) == CHOOSE i \in DOMAIN seq : seq[i] = x
SessionSlot(p, g) == (IndexIn(PasscodeSeq, p) - 1) * SessionGens + g
ClientSlot(u, g) == (IndexIn(UserSeq, u) - 1) * ClientGens + g

Allocated(h) == {i \in DOMAIN h : h[i] # Nil}

\* the identity a new object gets, 0 when the bounds are used up
FreeSession(p) ==
  IF Cardinality(Allocated(heap)) < MaxSessions
     /\ \E g \in 1..SessionGens : heap[SessionSlot(p, g)] = Nil
  THEN SessionSlot(p, CHOOSE g \in 1..SessionGens :
         /\ heap[SessionSlot(p, g)] = Nil
         /\ \A h \in 1..(g - 1) : heap[SessionSlot(p, h)] # Nil)
  ELSE 0

FreeClient(u) ==
  IF Cardinality(Allocated(cl)) < MaxClients
     /\ \E g \in 1..ClientGens : cl[ClientSlot(u, g)] = Nil
  THEN ClientSlot(u, CHOOSE g \in 1..ClientGens :
         /\ cl[ClientSlot(u, g)] = Nil
         /\ \A h \in 1..(g - 1) : cl[ClientSlot(u, h)] # Nil)
  ELSE 0


Idle == [pc |-> "select"]

Init ==
  /\ now = 0
  /\ heap = [i \in SessionIds |-> Nil]
  /\ sessions = [p \in Passcodes |-> 0]
  /\ cl = [i \in ClientIds |-> Nil]
  /\ clients = [u \in Users |-> 0]
  /\ lastBroadcast = [p \in Passcodes |-> ZeroTime]
  /\ broadcast = <<>>
  /\ inputEvents = <<>>
  /\ registering = {}
  /\ loop = Idle
  /\ tasks = {}
  /\ nextTick = tickInterval
  /\ results = <<>>
  /\ budget = [frames |-> MaxFrames, advances |-> MaxAdvances, races |-> MaxRaces]

(***************************************************************************)
(* GameSession                                                             *)
(***************************************************************************)
NewGameSession(roomID, player1ID, placements, at, rnd1, rnd2) ==
  [ID |-> roomID,
   Player1 |-> NewPlayerGameStateWithDeckPlacements(player1ID, placements, at, rnd1, rnd2),
   Player2 |-> Nil,
   Status |-> "waiting",
   StartedAt |-> ZeroTime,
   EndedAt |-> ZeroTime,
   TimeLimit |-> GameTimeLimit]

\* a SetPlayer2 that stores the new state in the wrong field
SetPlayer2IntoPlayer1(gs, player2ID, placements, at, rnd1, rnd2) ==
  [gs EXCEPT !.Player1 =
     NewPlayerGameStateWithDeckPlacements(player2ID, placements, at, rnd1, rnd2)]

SetPlayer2(gs, player2ID, placements, at, rnd1, rnd2) ==
  [gs EXCEPT !.Player2 =
     NewPlayerGameStateWithDeckPlacements(player2ID, placements, at, rnd1, rnd2)]

IsTimeUp(gs, at) ==
  IF gs.Status # "playing" THEN FALSE
  ELSE at - gs.StartedAt >= gs.TimeLimit

\* ToLightweight: the wire projection (boards and score maps left out here)
LightPlayer(ps) ==
  IF ps = Nil THEN Nil
  ELSE [UserID |-> ps.UserID, Score |-> ps.Score, LinesCleared |-> ps.LinesCleared,
        Level |-> ps.Level, IsGameOver |-> ps.IsGameOver,
        CurrentPiece |-> [Type |-> ps.CurrentPiece.Type, X |-> ps.CurrentPiece.X,
                          Y |-> ps.CurrentPiece.Y,
                          Rotation |-> ps.CurrentPiece.Rotation]]

ToLightweight(gs, at) ==
  [ID |-> gs.ID,
   Status |-> gs.Status,
   RemainingTime |->
     IF gs.Status = "playing" /\ gs.StartedAt # ZeroTime
        /\ gs.TimeLimit - (at - gs.StartedAt) > 0
     THEN (gs.TimeLimit - (at - gs.StartedAt)) \div 1000
     ELSE 0,
   Player1 |-> LightPlayer(gs.Player1),
   Player2 |-> LightPlayer(gs.Player2)]

(***************************************************************************)
(* Client                                                                  *)
(***************************************************************************)
\* finalSeen and overSeen record what the snapshots queued so far have shown:
\* the finished session, and the players who are game-over
NewClient(userID, passcode) ==
  [UserID |-> userID, RoomID |-> passcode, Send |-> <<>>, closed |-> FALSE,
   connOpen |-> TRUE, rp |-> "run", wp |-> "run", finalSeen |-> FALSE,
   overSeen |-> {}, pending |-> <<>>]

\* the players a snapshot shows as game-over
ShownOver(message) ==
  {ps.UserID : ps \in {q \in {message.Player1, message.Player2} :
                          q # Nil /\ q.IsGameOver}}

\* a snapshot that shows the end of the game
IsFinal(message) == message.Status = "finished" /\ message.RemainingTime = 0

\* a SafeSend that does not look at the closed flag
SafeSendUnchecked(c, message) ==
  IF Len(c.Send) < ChannelCap
    THEN [c EXCEPT !.Send = Append(@, message),
                   !.finalSeen = @ \/ IsFinal(message),
                   !.overSeen = @ \cup ShownOver(message)]
  ELSE c

\* SafeSend: the client after the call (unchanged when closed or full)
SafeSend(c, message) ==
  IF c.closed THEN c
  ELSE IF Len(c.Send) < ChannelCap
    THEN [c EXCEPT !.Send = Append(@, message),
                   !.finalSeen = @ \/ IsFinal(message),
                   !.overSeen = @ \cup ShownOver(message)]
  ELSE c

SafeSendOk(c) == ~c.closed /\ Len(c.Send) < ChannelCap

SafeClose(c) == IF ~c.closed THEN [c EXCEPT !.closed = TRUE] ELSE c

\* the users whose registry entry is a client of the room
RoomClients(passcode) ==
  {u \in Users : clients[u] # 0 /\ cl[clients[u]].RoomID = passcode}

(***************************************************************************)
(* JoinRoomByPasscode                                                      *)
(***************************************************************************)
\* what a call returns: (id, isNew, err) as a function of the registry
JoinError(e) == [id |-> "", isNew |-> FALSE, err |-> e]

\* a JoinResult without the test for a second player already set
JoinResultNoFullTest(passcode, playerID) ==
  IF passcode = "" THEN JoinError("passcode required")
  ELSE IF Len(passcode) < 3 \/ Len(passcode) > 20
    THEN JoinError("passcode length")
  ELSE IF passcode \notin Passcodes \/ sessions[passcode] = 0
    THEN [id |-> passcode, isNew |-> TRUE, err |-> "none"]
  ELSE LET session == heap[sessions[passcode]] IN
    IF session.Status # "waiting" THEN JoinError("not waiting")
    ELSE IF session.Player1 # Nil /\ session.Player1.UserID = playerID
      THEN JoinError("cannot join own room")
    ELSE [id |-> passcode, isNew |-> FALSE, err |-> "none"]

JoinResult(passcode, playerID) ==
  IF passcode = "" THEN JoinError("passcode required")
  ELSE IF Len(passcode) < 3 \/ Len(passcode) > 20
    THEN JoinError("passcode length")
  ELSE IF passcode \notin Passcodes \/ sessions[passcode] = 0
    THEN [id |-> passcode, isNew |-> TRUE, err |-> "none"]
  ELSE LET session == heap[sessions[passcode]] IN
    IF session.Status # "waiting" THEN JoinError("not waiting")
    ELSE IF session.Player2 # Nil THEN JoinError("room is full")
    ELSE IF session.Player1 # Nil /\ session.Player1.UserID = playerID
      THEN JoinError("cannot join own room")
    ELSE [id |-> passcode, isNew |-> FALSE, err |-> "none"]

\* the call's effect on the registry (none when it returns an error)
JoinRoomByPasscode(passcode, playerID, placements, rnd1, rnd2) ==
  /\ UNCHANGED <<now, cl, clients, lastBroadcast, broadcast, inputEvents,
                 registering, loop, tasks, nextTick, results>>
  /\ LET r == JoinResult(passcode, playerID) IN
     IF r.err # "none" THEN UNCHANGED <<heap, sessions>>
     ELSE IF r.isNew
       THEN /\ FreeSession(passcode) # 0
            /\ LET id == FreeSession(passcode) IN
               /\ sessions' = [sessions EXCEPT ![passcode] = id]
               /\ heap' = [heap EXCEPT ![id] =
                    NewGameSession(passcode, playerID, placements, now, rnd1, rnd2)]
     ELSE /\ UNCHANGED sessions
          /\ heap' = [heap EXCEPT ![sessions[passcode]] =
                 SetPlayer2(@, playerID, placements, now, rnd1, rnd2)]

(***************************************************************************)
(* BroadcastGameState, CheckAndStartGame, EndGameSession                   *)
(***************************************************************************)
\* a throttle that lets every request pass
ThrottledNever(passcode) == FALSE

\* the request falls into the window of the room's last broadcast
Throttled(passcode) ==
  /\ lastBroadcast[passcode] # ZeroTime
  /\ now - lastBroadcast[passcode] < minBroadcastInterval

\* BroadcastGameState as called when the registry is `sess`
BroadcastGameState(passcode, sess) ==
  IF Throttled(passcode) THEN UNCHANGED <<lastBroadcast, broadcast>>
  ELSE /\ lastBroadcast' = [lastBroadcast EXCEPT ![passcode] = now]
       /\ IF sess[passcode] # 0 /\ Len(broadcast) < ChannelCap
          THEN broadcast' = Append(broadcast, passcode)
          ELSE UNCHANGED broadcast

CanStart(passcode) ==
  /\ sessions[passcode] # 0
  /\ LET session == heap[sessions[passcode]] IN
     /\ session.Player1 # Nil
     /\ session.Player2 # Nil
     /\ clients[session.Player1.UserID] # 0
     /\ clients[session.Player2.UserID] # 0
     /\ session.Status = "waiting"

CheckAndStartGame(passcode) ==
  /\ [kind |-> "check", room |-> passcode] \in tasks
  /\ IF CanStart(passcode)
     THEN /\ heap' = [heap EXCEPT ![sessions[passcode]] =
                        [@ EXCEPT !.Status = "playing", !.StartedAt = now]]
          /\ tasks' = (tasks \ {[kind |-> "check", room |-> passcode]})
                        \cup {[kind |-> "bcast", room |-> passcode]}
     ELSE /\ tasks' = tasks \ {[kind |-> "check", room |-> passcode]}
          /\ UNCHANGED heap
  /\ UNCHANGED <<now, sessions, cl, clients, lastBroadcast, broadcast,
                 inputEvents, registering, loop, nextTick, results,
                 budget>>

\* a saveGameResultsToRanking that stores Player1's row only
saveGameResultsToRankingPlayer1Only(session) ==
  IF session.Player1 # Nil
    THEN <<[UserID |-> session.Player1.UserID, Score |-> session.Player1.Score]>>
    ELSE <<>>

saveGameResultsToRanking(session) ==
  (IF session.Player1 # Nil
     THEN <<[UserID |-> session.Player1.UserID, Score |-> session.Player1.Score]>>
     ELSE <<>>)
  \o (IF session.Player2 # Nil
        THEN <<[UserID |-> session.Player2.UserID, Score |-> session.Player2.Score]>>
        ELSE <<>>)

\* EndGameSession: the reason it logs, read from the session after Status
\* and EndedAt were assigned
EndReason(gs, at) ==
  IF IsTimeUp(gs, at) THEN "TIME LIMIT"
  ELSE IF gs.Player1 # Nil /\ gs.Player1.IsGameOver THEN "GAME OVER - Player1"
  ELSE IF gs.Player2 # Nil /\ gs.Player2.IsGameOver THEN "GAME OVER - Player2"
  ELSE "OTHER REASON"

\* EndGameSession up to the point where it re-acquires the lock
EndProceeds(passcode) ==
  sessions[passcode] # 0 /\ heap[sessions[passcode]].Status # "finished"

EndGameSessionFinish(passcode) ==
  /\ heap' = [heap EXCEPT ![sessions[passcode]] =
                [@ EXCEPT !.Status = "finished", !.EndedAt = now]]
  /\ results' = results \o saveGameResultsToRanking(heap[sessions[passcode]])
  /\ BroadcastGameState(passcode, sessions)

\* a cleanup that closes and deregisters the connections of every room
EndGameSessionCleanupAllRooms(passcode) ==
  /\ cl' = [i \in ClientIds |->
              IF cl[i] # Nil /\ clients[cl[i].UserID] = i
              THEN SafeClose(cl[i]) ELSE cl[i]]
  /\ clients' = [u \in Users |-> 0]
  /\ sessions' = [sessions EXCEPT ![passcode] = 0]

\* EndGameSession from the re-acquired lock to its return
EndGameSessionCleanup(passcode) ==
  /\ cl' = [i \in ClientIds |->
              IF cl[i] # Nil /\ cl[i].RoomID = passcode
                 /\ clients[cl[i].UserID] = i
              THEN SafeClose(cl[i]) ELSE cl[i]]
  /\ clients' = [u \in Users |-> IF u \in RoomClients(passcode) THEN 0 ELSE clients[u]]
  /\ sessions' = [sessions EXCEPT ![passcode] = 0]

(***************************************************************************)
(* RegisterClient, reached through HandleWebSocketConnection               *)
(***************************************************************************)
\* HandleWebSocketConnection admits the upgrade when the room exists; the
\* call then blocks on `sm.register <- client` until the loop receives it.
RegisterClient(passcode, userID) ==
  /\ sessions[passcode] # 0
  /\ FreeClient(userID) # 0
  /\ LET id == FreeClient(userID)
         old == clients[userID] IN
     /\ cl' = [i \in ClientIds |->
                 IF i = id THEN NewClient(userID, passcode)
                 ELSE IF i = old /\ ~ALLOW_SAME_USER_JOIN
                   THEN [SafeClose(cl[i]) EXCEPT !.connOpen = FALSE]
                 ELSE cl[i]]
     /\ clients' = [clients EXCEPT ![userID] = id]
     /\ registering' = registering \cup {id}
  /\ UNCHANGED <<now, heap, sessions, lastBroadcast, broadcast, inputEvents,
                 loop, tasks, nextTick, results>>

(***************************************************************************)
(* Run: the central loop                                                   *)
(***************************************************************************)
\* case client := <-sm.register (the handler's own delayed start check is
\* the same task as the loop's)
LoopRegister(c) ==
  /\ loop = Idle
  /\ c \in registering
  /\ clients' = [clients EXCEPT ![cl[c].UserID] = c]
  /\ registering' = registering \ {c}
  /\ tasks' = tasks \cup {[kind |-> "bcast", room |-> cl[c].RoomID],
                          [kind |-> "check", room |-> cl[c].RoomID]}
  /\ UNCHANGED <<now, heap, sessions, cl, lastBroadcast, broadcast,
                 inputEvents, loop, nextTick, results, budget>>

\* case client := <-sm.unregister, first critical section
LoopUnregister ==
  /\ loop.pc = "unregister"
  /\ LET c == loop.client IN
     IF clients[cl[c].UserID] = c
     THEN /\ cl' = [cl EXCEPT ![c] = SafeClose(@)]
          /\ clients' = [clients EXCEPT ![cl[c].UserID] = 0]
     ELSE UNCHANGED <<cl, clients>>
  /\ loop' = [pc |-> "left", client |-> loop.client]
  /\ UNCHANGED <<now, heap, sessions, lastBroadcast, broadcast, inputEvents,
                 registering, tasks, nextTick, results, budget>>

\* an unregister case that ends the session of the room whatever its status
LoopUnregisterLeftAnyStatus ==
  /\ loop.pc = "left"
  /\ LET passcode == cl[loop.client].RoomID IN
     IF sessions[passcode] # 0 /\ heap[sessions[passcode]].Status # "finished"
     THEN /\ EndGameSessionFinish(passcode)
          /\ loop' = [pc |-> "cleanup", room |-> passcode, todo |-> {}]
     ELSE /\ IF sessions[passcode] # 0
             THEN BroadcastGameState(passcode, sessions)
             ELSE UNCHANGED <<lastBroadcast, broadcast>>
          /\ loop' = Idle
          /\ UNCHANGED <<heap, results>>
  /\ UNCHANGED <<now, sessions, cl, clients, inputEvents, registering, tasks,
                 nextTick, budget>>

\* ... and what follows it: end a playing session, else broadcast
LoopUnregisterLeft ==
  /\ loop.pc = "left"
  /\ LET passcode == cl[loop.client].RoomID IN
     IF sessions[passcode] # 0 /\ heap[sessions[passcode]].Status = "playing"
     THEN /\ EndGameSessionFinish(passcode)
          /\ loop' = [pc |-> "cleanup", room |-> passcode, todo |-> {}]
     ELSE /\ IF sessions[passcode] # 0
             THEN BroadcastGameState(passcode, sessions)
             ELSE UNCHANGED <<lastBroadcast, broadcast>>
          /\ loop' = Idle
          /\ UNCHANGED <<heap, results>>
  /\ UNCHANGED <<now, sessions, cl, clients, inputEvents, registering, tasks,
                 nextTick, budget>>

\* EndGameSession called by the loop, after its broadcast call
LoopEndCleanup ==
  /\ loop.pc = "cleanup"
  /\ EndGameSessionCleanup(loop.room)
  /\ loop' = IF loop.todo = {} THEN Idle ELSE [pc |-> "tick", todo |-> loop.todo]
  /\ UNCHANGED <<now, heap, lastBroadcast, broadcast, inputEvents, registering,
                 tasks, nextTick, results, budget>>

\* an InputTarget without the test that the session is playing
InputTargetAnyStatus(event) ==
  IF clients[event.UserID] = 0 THEN Nil
  ELSE LET passcode == cl[clients[event.UserID]].RoomID IN
    IF sessions[passcode] = 0 THEN Nil
    ELSE LET id == sessions[passcode]
             session == heap[id] IN
      IF session.Player1 # Nil /\ session.Player1.UserID = event.UserID
        THEN IF session.Player1.IsGameOver THEN Nil ELSE [id |-> id, field |-> "Player1"]
      ELSE IF session.Player2 # Nil /\ session.Player2.UserID = event.UserID
        THEN IF session.Player2.IsGameOver THEN Nil ELSE [id |-> id, field |-> "Player2"]
      ELSE Nil

\* the player state an input event is applied to: [id, field] or Nil
InputTarget(event) ==
  IF clients[event.UserID] = 0 THEN Nil
  ELSE LET passcode == cl[clients[event.UserID]].RoomID IN
    IF sessions[passcode] = 0 THEN Nil
    ELSE LET id == sessions[passcode]
             session == heap[id] IN
      IF session.Status # "playing" THEN Nil
      ELSE IF session.Player1 # Nil /\ session.Player1.UserID = event.UserID
        THEN IF session.Player1.IsGameOver THEN Nil ELSE [id |-> id, field |-> "Player1"]
      ELSE IF session.Player2 # Nil /\ session.Player2.UserID = event.UserID
        THEN IF session.Player2.IsGameOver THEN Nil ELSE [id |-> id, field |-> "Player2"]
      ELSE Nil

\* the loop's handling of the result of ApplyPlayerInput
LoopInputApplied(target, event, r, room) ==
  /\ heap' = [heap EXCEPT ![target.id][target.field] = r.state]
  /\ tasks' = tasks
       \cup (IF r.moved
               THEN {[kind |-> "specific", room |-> room, user |-> event.UserID]}
               ELSE {})
       \cup (IF r.moved /\ r.state.IsGameOver
               THEN {[kind |-> "bcast", room |-> room]} ELSE {})

LoopInputFor(event, target, rnd) ==
  IF target = Nil THEN UNCHANGED <<heap, tasks>>
  ELSE LoopInputApplied(target, event,
         ApplyPlayerInput(heap[target.id][target.field], event.Action, rnd),
         heap[target.id].ID)

\* the event leaves the frames its connection has in the queue
\* (history: `pending` is in the order of receipt)
Received(event) == [cl EXCEPT ![event.conn].pending = Tail(@)]

\* a LoopInput that takes the newest frame of the queue instead of the oldest
LoopInputNewestFirst(rnd) ==
  /\ loop = Idle
  /\ inputEvents # <<>>
  /\ inputEvents' = SubSeq(inputEvents, 1, Len(inputEvents) - 1)
  /\ cl' = Received(inputEvents[Len(inputEvents)])
  /\ LoopInputFor(inputEvents[Len(inputEvents)],
                  InputTarget(inputEvents[Len(inputEvents)]), rnd)
  /\ UNCHANGED <<now, sessions, clients, lastBroadcast, broadcast,
                 registering, loop, nextTick, results, budget>>

\* case event := <-sm.inputEvents
LoopInput(rnd) ==
  /\ loop = Idle
  /\ inputEvents # <<>>
  /\ inputEvents' = Tail(inputEvents)
  /\ cl' = Received(Head(inputEvents))
  /\ LoopInputFor(Head(inputEvents), InputTarget(Head(inputEvents)), rnd)
  /\ UNCHANGED <<now, sessions, clients, lastBroadcast, broadcast,
                 registering, loop, nextTick, results, budget>>

\* case <-ticker.C: snapshot of the playing sessions
LoopTick ==
  /\ loop = Idle
  /\ now >= nextTick
  /\ nextTick' = now + tickInterval
  /\ LET active == {sessions[p] : p \in {q \in Passcodes :
                       sessions[q] # 0 /\ heap[sessions[q]].Status = "playing"}} IN
     loop' = IF active = {} THEN Idle ELSE [pc |-> "tick", todo |-> active]
  /\ UNCHANGED <<now, heap, sessions, cl, clients, lastBroadcast, broadcast,
                 inputEvents, registering, tasks, results, budget>>

BothGameOver(session) ==
  /\ session.Player1 # Nil /\ session.Player2 # Nil
  /\ session.Player1.IsGameOver /\ session.Player2.IsGameOver

\* a TickAutoFall that lets only Player1's piece fall
TickAutoFallPlayer1Only(session, rnd) ==
  [session EXCEPT
     !.Player1 = IF @ # Nil /\ ~@.IsGameOver THEN AutoFall(@, now, rnd) ELSE @]

\* the auto-fall of both players of a session
TickAutoFall(session, rnd) ==
  [session EXCEPT
     !.Player1 = IF @ # Nil /\ ~@.IsGameOver THEN AutoFall(@, now, rnd) ELSE @,
     !.Player2 = IF @ # Nil /\ ~@.IsGameOver THEN AutoFall(@, now, rnd) ELSE @]

\* the loop body after the auto-fall of both players
LoopTickFallen(id, session, fallen, after) ==
  /\ heap' = [heap EXCEPT ![id] = fallen]
  /\ tasks' = tasks \cup {[kind |-> "bcast", room |-> session.ID]}
       \cup (IF BothGameOver(fallen)
               THEN {[kind |-> "end", room |-> session.ID,
                      wake |-> now + graceDelay]}
               ELSE {})
  /\ loop' = after
  /\ UNCHANGED <<results, lastBroadcast, broadcast>>

\* ... and the loop body for one session of the snapshot
LoopTickSession(id, rnd) ==
  /\ loop.pc = "tick"
  /\ id \in loop.todo
  /\ LET session == heap[id]
         rest == loop.todo \ {id}
         after == IF rest = {} THEN Idle ELSE [pc |-> "tick", todo |-> rest] IN
     IF IsTimeUp(session, now)
     THEN /\ IF EndProceeds(session.ID)
             THEN /\ EndGameSessionFinish(session.ID)
                  /\ loop' = [pc |-> "cleanup", room |-> session.ID, todo |-> rest]
             ELSE /\ loop' = after
                  /\ UNCHANGED <<heap, results, lastBroadcast, broadcast>>
          /\ UNCHANGED tasks
     ELSE LoopTickFallen(id, session, TickAutoFall(session, rnd), after)
  /\ UNCHANGED <<now, sessions, cl, clients, inputEvents, registering,
                 nextTick, budget>>

\* case event := <-sm.broadcast
LoopBroadcast ==
  /\ loop = Idle
  /\ broadcast # <<>>
  /\ broadcast' = Tail(broadcast)
  /\ LET room == Head(broadcast) IN
     IF sessions[room] = 0 THEN UNCHANGED cl
     ELSE LET stateJSON == ToLightweight(heap[sessions[room]], now) IN
          cl' = [i \in ClientIds |->
                   IF cl[i] # Nil /\ clients[cl[i].UserID] = i /\ cl[i].RoomID = room
                   THEN SafeSend(cl[i], stateJSON) ELSE cl[i]]
  /\ UNCHANGED <<now, heap, sessions, clients, lastBroadcast, inputEvents,
                 registering, loop, tasks, nextTick, results, budget>>

(***************************************************************************)
(* Goroutines spawned by the loop and by CheckAndStartGame                 *)
(***************************************************************************)
\* go sm.BroadcastGameState(passcode)
RunBroadcastGameState(passcode) ==
  /\ [kind |-> "bcast", room |-> passcode] \in tasks
  /\ tasks' = tasks \ {[kind |-> "bcast", room |-> passcode]}
  /\ BroadcastGameState(passcode, sessions)
  /\ UNCHANGED <<now, heap, sessions, cl, clients, inputEvents, registering,
                 loop, nextTick, results, budget>>

\* go sm.BroadcastToSpecificClient(userID, passcode)
BroadcastToSpecificClient(userID, passcode) ==
  /\ [kind |-> "specific", room |-> passcode, user |-> userID] \in tasks
  /\ tasks' = tasks \ {[kind |-> "specific", room |-> passcode, user |-> userID]}
  /\ IF sessions[passcode] = 0 \/ clients[userID] = 0 THEN UNCHANGED cl
     ELSE cl' = [cl EXCEPT ![clients[userID]] =
                   SafeSend(@, ToLightweight(heap[sessions[passcode]], now))]
  /\ UNCHANGED <<now, heap, sessions, clients, lastBroadcast, broadcast,
                 inputEvents, registering, loop, nextTick, results,
                 budget>>

\* a delayed EndGameSession that does not sleep before the call
DelayedEndNoSleep(passcode, wake) ==
  /\ [kind |-> "end", room |-> passcode, wake |-> wake] \in tasks
  /\ IF EndProceeds(passcode)
     THEN /\ EndGameSessionFinish(passcode)
          /\ tasks' = (tasks \ {[kind |-> "end", room |-> passcode, wake |-> wake]})
                        \cup {[kind |-> "cleanup", room |-> passcode]}
     ELSE /\ tasks' = tasks \ {[kind |-> "end", room |-> passcode, wake |-> wake]}
          /\ UNCHANGED <<heap, results, lastBroadcast, broadcast>>
  /\ UNCHANGED <<now, sessions, cl, clients, inputEvents, registering, loop,
                 nextTick, budget>>

\* go func() { time.Sleep(2 * time.Second); sm.EndGameSession(id) }: the call
DelayedEnd(passcode, wake) ==
  /\ [kind |-> "end", room |-> passcode, wake |-> wake] \in tasks
  /\ now >= wake
  /\ IF EndProceeds(passcode)
     THEN /\ EndGameSessionFinish(passcode)
          /\ tasks' = (tasks \ {[kind |-> "end", room |-> passcode, wake |-> wake]})
                        \cup {[kind |-> "cleanup", room |-> passcode]}
     ELSE /\ tasks' = tasks \ {[kind |-> "end", room |-> passcode, wake |-> wake]}
          /\ UNCHANGED <<heap, results, lastBroadcast, broadcast>>
  /\ UNCHANGED <<now, sessions, cl, clients, inputEvents, registering, loop,
                 nextTick, budget>>

\* ... and its second critical section
DelayedEndCleanup(passcode) ==
  /\ [kind |-> "cleanup", room |-> passcode] \in tasks
  /\ tasks' = tasks \ {[kind |-> "cleanup", room |-> passcode]}
  /\ EndGameSessionCleanup(passcode)
  /\ UNCHANGED <<now, heap, lastBroadcast, broadcast, inputEvents, registering,
                 loop, nextTick, results, budget>>

(***************************************************************************)
(* readPump and writePump                                                  *)
(***************************************************************************)
\* a frame arrives and is queued for the loop
readPump(c, action) ==
  /\ cl[c] # Nil /\ cl[c].rp = "run" /\ cl[c].connOpen
  /\ IF Len(inputEvents) < ChannelCap
     THEN /\ inputEvents' = Append(inputEvents,
               [UserID |-> cl[c].UserID, Action |-> action, conn |-> c])
          /\ cl' = [cl EXCEPT ![c].pending = Append(@, action)]
     ELSE UNCHANGED <<inputEvents, cl>>
  /\ UNCHANGED <<now, heap, sessions, clients, lastBroadcast, broadcast,
                 registering, loop, tasks, nextTick, results>>

\* ReadMessage fails (the peer went away or the connection was closed) and
\* the loop is in its select: the unregister is received
readPumpExit(c) ==
  /\ cl[c] # Nil /\ cl[c].rp = "run"
  /\ loop = Idle
  /\ cl' = [cl EXCEPT ![c].rp = "done", ![c].connOpen = FALSE]
  /\ loop' = [pc |-> "unregister", client |-> c]
  /\ UNCHANGED <<now, heap, sessions, clients, lastBroadcast, broadcast,
                 inputEvents, registering, tasks, nextTick, results>>

\* the loop is not parked in its select
LoopBusy ==
  \/ loop # Idle
  \/ broadcast # <<>>
  \/ inputEvents # <<>>
  \/ registering # {}
  \/ now >= nextTick

\* ... or the loop is busy: the select takes its default branch
readPumpExitDropped(c) ==
  /\ cl[c] # Nil /\ cl[c].rp = "run"
  /\ LoopBusy
  /\ cl' = [cl EXCEPT ![c].rp = "done", ![c].connOpen = FALSE]
  /\ UNCHANGED <<now, heap, sessions, clients, lastBroadcast, broadcast,
                 inputEvents, registering, loop, tasks, nextTick, results>>

\* ReadMessage fails because this side closed the connection
readPumpClosed(c) ==
  /\ cl[c] # Nil /\ ~cl[c].connOpen
  /\ readPumpExit(c)
  /\ UNCHANGED budget

readPumpClosedDropped(c) ==
  /\ cl[c] # Nil /\ ~cl[c].connOpen
  /\ readPumpExitDropped(c)
  /\ UNCHANGED budget

\* a queued message is written to the socket
writePump(c) ==
  /\ cl[c] # Nil /\ cl[c].wp = "run"
  /\ cl[c].Send # <<>>
  /\ cl' = [cl EXCEPT ![c].Send = Tail(@)]
  /\ UNCHANGED <<now, heap, sessions, clients, lastBroadcast, broadcast,
                 inputEvents, registering, loop, tasks, nextTick, results, budget>>

\* the queue is closed and drained: close frame, Conn.Close
writePumpExit(c) ==
  /\ cl[c] # Nil /\ cl[c].wp = "run"
  /\ cl[c].Send = <<>> /\ cl[c].closed
  /\ cl' = [cl EXCEPT ![c].wp = "done", ![c].connOpen = FALSE]
  /\ UNCHANGED <<now, heap, sessions, clients, lastBroadcast, broadcast,
                 inputEvents, registering, loop, tasks, nextTick, results, budget>>

(***************************************************************************)
(* The clock                                                               *)
(***************************************************************************)
\* time passes; a goroutine sleeping in time.Sleep wakes when it is due
Advance(d) ==
  /\ \A t \in tasks : t.kind = "end" => now + d <= t.wake
  /\ now' = now + d
  /\ UNCHANGED <<heap, sessions, cl, clients, lastBroadcast, broadcast,
                 inputEvents, registering, loop, tasks, nextTick, results>>

Wakes == {t.wake : t \in {x \in tasks : x.kind = "end"}}

(***************************************************************************)
(* Spec: three users and one room, everything but the end of a long game.  *)
(* The environment's stimuli are budgeted; MaxRaces of them may arrive     *)
(* while the manager is still working on earlier ones.  A user connects    *)
(* once.                                                                   *)
(***************************************************************************)
\* nothing is pending except sleeping delayed calls
AtRest ==
  /\ loop = Idle
  /\ \A t \in tasks : t.kind = "end"
  /\ broadcast = <<>>
  /\ inputEvents = <<>>
  /\ registering = {}
  /\ now < nextTick
  /\ \A i \in ClientIds : cl[i] # Nil =>
        /\ cl[i].Send = <<>>
        /\ cl[i].closed => cl[i].wp = "done"
        /\ ~cl[i].connOpen => cl[i].rp = "done"

StimulusRooms == {"hello"}
SpecActions == {"hard_drop", "hold", "bogus"}

MayAct == AtRest \/ budget.races > 0

Spend(frames, advances) ==
  [frames |-> budget.frames - frames,
   advances |-> budget.advances - advances,
   races |-> IF AtRest THEN budget.races ELSE budget.races - 1]

Join(p, u, d, r1, r2) ==
  /\ MayAct
  /\ budget' = Spend(0, 0)
  /\ JoinRoomByPasscode(p, u, d, r1, r2)

Connect(p, u) ==
  /\ MayAct
  /\ budget' = Spend(0, 0)
  /\ RegisterClient(p, u)

FirstConnect(p, u) ==
  /\ \A i \in ClientIds : cl[i] # Nil => cl[i].UserID # u
  /\ Connect(p, u)

\* a frame the loop will drop is dropped whatever its action: one kind of
\* those is enough
ClientSends(c, action) ==
  /\ MayAct
  /\ budget.frames > 0
  /\ cl[c] # Nil
  /\ InputTarget([UserID |-> cl[c].UserID, Action |-> action]) = Nil
       => action = "hard_drop"
  /\ budget' = Spend(1, 0)
  /\ readPump(c, action)

\* the peer goes away
Disconnect(c) ==
  /\ MayAct
  /\ cl[c] # Nil /\ cl[c].connOpen
  /\ budget' = Spend(0, 0)
  /\ readPumpExit(c)

DisconnectDropped(c) ==
  /\ budget.races > 0
  /\ cl[c] # Nil /\ cl[c].connOpen
  /\ budget' = Spend(0, 0)
  /\ readPumpExitDropped(c)

TimePasses(d) ==
  /\ MayAct
  /\ \E p \in Passcodes : sessions[p] # 0 /\ heap[sessions[p]].Status = "playing"
  /\ budget.advances > 0
  /\ budget' = Spend(0, 1)
  /\ Advance(d)

Next ==
  \/ \E p \in StimulusRooms \cup BadPasscodes, u \in Users, d \in DeckChoices,
        r1, r2 \in Shuffles : Join(p, u, d, r1, r2)
  \/ \E p \in StimulusRooms, u \in Users : FirstConnect(p, u)
  \/ \E c \in ClientIds, a \in SpecActions : ClientSends(c, a)
  \/ \E c \in ClientIds : Disconnect(c)
  \/ \E c \in ClientIds : DisconnectDropped(c)
  \/ \E d \in TimeSteps : TimePasses(d)
  \/ \E c \in ClientIds : LoopRegister(c)
  \/ LoopUnregister
  \/ LoopUnregisterLeft
  \/ LoopEndCleanup
  \/ \E r \in Shuffles : LoopInput(r)
  \/ LoopTick
  \/ \E id \in SessionIds, r \in Shuffles : LoopTickSession(id, r)
  \/ LoopBroadcast
  \/ \E p \in Passcodes : CheckAndStartGame(p)
  \/ \E p \in Passcodes : RunBroadcastGameState(p)
  \/ \E p \in Passcodes, u \in Users : BroadcastToSpecificClient(u, p)
  \/ \E c \in ClientIds : writePump(c)
  \/ \E c \in ClientIds : writePumpExit(c)
  \/ \E c \in ClientIds : readPumpClosed(c)
  \/ \E c \in ClientIds : readPumpClosedDropped(c)

Spec == Init /\ [][Next]_vars

(***************************************************************************)
(* SpecRooms: two users and two rooms, no frames and no clock; users may   *)
(* reconnect.  Every stimulus arrives at rest.  The loop and the           *)
(* goroutines are scheduled fairly.                                        *)
(***************************************************************************)
RoomUsers == {"A", "B"}

InitRooms ==
  /\ now = 0
  /\ heap = [i \in SessionIds |-> Nil]
  /\ sessions = [p \in Passcodes |-> 0]
  /\ cl = [i \in ClientIds |-> Nil]
  /\ clients = [u \in Users |-> 0]
  /\ lastBroadcast = [p \in Passcodes |-> ZeroTime]
  /\ broadcast = <<>>
  /\ inputEvents = <<>>
  /\ registering = {}
  /\ loop = Idle
  /\ tasks = {}
  /\ nextTick = tickInterval
  /\ results = <<>>
  /\ budget = [frames |-> 0, advances |-> 0, races |-> 0]

NextRooms ==
  \/ \E p \in Passcodes, u \in RoomUsers, d \in DeckChoices,
        r1, r2 \in Shuffles : Join(p, u, d, r1, r2)
  \/ \E p \in Passcodes, u \in RoomUsers : Connect(p, u)
  \/ \E c \in ClientIds : Disconnect(c)
  \/ \E c \in ClientIds : LoopRegister(c)
  \/ LoopUnregister
  \/ LoopUnregisterLeft
  \/ LoopEndCleanup
  \/ LoopBroadcast
  \/ \E p \in Passcodes : CheckAndStartGame(p)
  \/ \E p \in Passcodes : RunBroadcastGameState(p)
  \/ \E c \in ClientIds : writePump(c)
  \/ \E c \in ClientIds : writePumpExit(c)
  \/ \E c \in ClientIds : readPumpClosed(c)

FairRooms ==
  /\ WF_vars(\E c \in ClientIds : LoopRegister(c))
  /\ WF_vars(LoopUnregister)
  /\ WF_vars(LoopUnregisterLeft)
  /\ WF_vars(LoopEndCleanup)
  /\ WF_vars(LoopBroadcast)
  /\ WF_vars(\E p \in Passcodes : CheckAndStartGame(p))
  /\ WF_vars(\E p \in Passcodes : RunBroadcastGameState(p))
  /\ WF_vars(\E c \in ClientIds : writePump(c))
  /\ WF_vars(\E c \in ClientIds : writePumpExit(c))
  /\ WF_vars(\E c \in ClientIds : readPumpClosed(c))

SpecRooms == InitRooms /\ [][NextRooms]_vars /\ FairRooms

(***************************************************************************)
(* SpecPlay: one room, a host and a guest who play to the end at human     *)
(* speed.  Every stimulus (a join, a connection, a frame, the passing of   *)
(* time) finds the manager at rest; the host connects first; frames are    *)
(* hard drops sent during the first second of the game; nobody             *)
(* disconnects.  What the manager does between two stimuli interleaves     *)
(* freely.                                                                 *)
(***************************************************************************)
PlayHost == "A"
PlayGuest == "B"
PlayUsers == {PlayHost, PlayGuest}
PlayRoom == "hello"
PlaySteps == {1000, 2000, GameTimeLimit - 1000, GameTimeLimit}
MaxPlayAdvances == 4

InitPlay ==
  /\ now = 0
  /\ heap = [i \in SessionIds |-> Nil]
  /\ sessions = [p \in Passcodes |-> 0]
  /\ cl = [i \in ClientIds |-> Nil]
  /\ clients = [u \in Users |-> 0]
  /\ lastBroadcast = [p \in Passcodes |-> ZeroTime]
  /\ broadcast = <<>>
  /\ inputEvents = <<>>
  /\ registering = {}
  /\ loop = Idle
  /\ tasks = {}
  /\ nextTick = tickInterval
  /\ results = <<>>
  /\ budget = [frames |-> 0, advances |-> MaxPlayAdvances, races |-> 0]

IsPlayerOf(u, session) ==
  \/ session.Player1 # Nil /\ session.Player1.UserID = u
  \/ session.Player2 # Nil /\ session.Player2.UserID = u

PlayJoin(u, d, r1, r2) ==
  /\ AtRest
  /\ \/ sessions[PlayRoom] = 0 /\ u = PlayHost
     \/ /\ sessions[PlayRoom] # 0
        /\ heap[sessions[PlayRoom]].Status = "waiting"
        /\ heap[sessions[PlayRoom]].Player2 = Nil
        /\ u = PlayGuest
  /\ JoinRoomByPasscode(PlayRoom, u, d, r1, r2)
  /\ UNCHANGED budget

PlayConnect(u) ==
  /\ AtRest
  /\ sessions[PlayRoom] # 0
  /\ IsPlayerOf(u, heap[sessions[PlayRoom]])
  /\ \A i \in ClientIds : cl[i] # Nil => cl[i].UserID # u
  /\ u = PlayGuest => clients[PlayHost] # 0
  /\ RegisterClient(PlayRoom, u)
  /\ UNCHANGED budget

PlayerSends(c) ==
  /\ AtRest
  /\ cl[c] # Nil /\ clients[cl[c].UserID] = c
  /\ sessions[cl[c].RoomID] # 0
  /\ LET session == heap[sessions[cl[c].RoomID]] IN
     /\ session.Status = "playing"
     /\ now < session.StartedAt + tickInterval
  /\ readPump(c, "hard_drop")
  /\ UNCHANGED budget

PlayAdvance(d) ==
  /\ AtRest
  /\ \/ \E p \in Passcodes : sessions[p] # 0 /\ heap[sessions[p]].Status = "playing"
     \/ \E t \in tasks : t.kind = "end"
  /\ budget.advances > 0
  /\ budget' = [budget EXCEPT !.advances = @ - 1]
  /\ Advance(d)

NextPlay ==
  \/ \E u \in PlayUsers, d \in DeckChoices, r1, r2 \in Shuffles : PlayJoin(u, d, r1, r2)
  \/ \E u \in PlayUsers : PlayConnect(u)
  \/ \E c \in ClientIds : LoopRegister(c)
  \/ \E p \in Passcodes : CheckAndStartGame(p)
  \/ \E p \in Passcodes : RunBroadcastGameState(p)
  \/ LoopBroadcast
  \/ \E c \in ClientIds : PlayerSends(c)
  \/ \E r \in Shuffles : LoopInput(r)
  \/ \E p \in Passcodes, u \in PlayUsers : BroadcastToSpecificClient(u, p)
  \/ \E c \in ClientIds : writePump(c)
  \/ LoopTick
  \/ \E id \in SessionIds, r \in Shuffles : LoopTickSession(id, r)
  \/ \E p \in Passcodes, w \in Wakes : DelayedEnd(p, w)
  \/ \E p \in Passcodes : DelayedEndCleanup(p)
  \/ LoopEndCleanup
  \/ \E c \in ClientIds : writePumpExit(c)
  \/ \E c \in ClientIds : readPumpClosed(c)
  \/ \E c \in ClientIds : readPumpClosedDropped(c)
  \/ LoopUnregister
  \/ LoopUnregisterLeft
  \/ \E d \in PlaySteps : PlayAdvance(d)

\* what the manager's goroutines do by themselves, and the passing of time
PlayRuns ==
  \/ \E c \in ClientIds : LoopRegister(c)
  \/ LoopTick
  \/ LoopBroadcast
  \/ LoopEndCleanup
  \/ LoopUnregister
  \/ LoopUnregisterLeft
  \/ \E p \in Passcodes : CheckAndStartGame(p)
  \/ \E p \in Passcodes : RunBroadcastGameState(p)
  \/ \E p \in Passcodes, u \in PlayUsers : BroadcastToSpecificClient(u, p)
  \/ \E p \in Passcodes, w \in Wakes : DelayedEnd(p, w)
  \/ \E p \in Passcodes : DelayedEndCleanup(p)
  \/ \E c \in ClientIds : writePump(c)
  \/ \E c \in ClientIds : writePumpExit(c)
  \/ \E c \in ClientIds : (readPumpClosed(c) \/ readPumpClosedDropped(c))
  \/ \E d \in PlaySteps : PlayAdvance(d)

\* the loop leaves the body of its ticker case for one session
\* (the steps of LoopTickSession)
LoopAfterTick ==
  {Idle} \cup {[pc |-> "tick", todo |-> S] : S \in SUBSET SessionIds}
         \cup {[pc |-> "cleanup", room |-> p, todo |-> S] :
                  p \in Passcodes, S \in SUBSET SessionIds}

TickMoves == loop.pc = "tick" /\ loop' \in LoopAfterTick

\* the loop receives from its input queue (the steps of LoopInput)
InputMoves == loop = Idle /\ inputEvents # <<>> /\ inputEvents' = Tail(inputEvents)

\* Between two stimuli the manager's work is finite, so it is enough that
\* whatever is runnable runs: the goroutines and the clock, and the loop in
\* its ticker and input cases.
FairPlay ==
  /\ WF_vars(PlayRuns)
  /\ WF_loop(TickMoves)
  /\ WF_inputEvents(InputMoves)

SpecPlay == InitPlay /\ [][NextPlay]_vars /\ FairPlay

(***************************************************************************)
(* SpecInput: the first second of a game in one room.  The host plays:     *)
(* soft drops and hard drops, up to MaxQueued frames ahead of the loop;    *)
(* the guest watches.  No tick falls into this second.                     *)
(***************************************************************************)
MaxInputFrames == 20
MaxQueued == 2
PlayActions == {"soft_drop", "hard_drop"}

InitInput ==
  /\ now = 0
  /\ heap = [i \in SessionIds |-> Nil]
  /\ sessions = [p \in Passcodes |-> 0]
  /\ cl = [i \in ClientIds |-> Nil]
  /\ clients = [u \in Users |-> 0]
  /\ lastBroadcast = [p \in Passcodes |-> ZeroTime]
  /\ broadcast = <<>>
  /\ inputEvents = <<>>
  /\ registering = {}
  /\ loop = Idle
  /\ tasks = {}
  /\ nextTick = tickInterval
  /\ results = <<>>
  /\ budget = [frames |-> MaxInputFrames, advances |-> 0, races |-> 0]

\* nothing is under way but the frames in the input queue
QuietButInputs ==
  /\ loop = Idle
  /\ tasks = {}
  /\ broadcast = <<>>
  /\ registering = {}
  /\ \A i \in ClientIds : cl[i] # Nil => cl[i].Send = <<>>

HostSends(c, action) ==
  /\ QuietButInputs
  /\ Len(inputEvents) < MaxQueued
  /\ budget.frames > 0
  /\ cl[c] # Nil /\ clients[PlayHost] = c
  /\ sessions[cl[c].RoomID] # 0
  /\ heap[sessions[cl[c].RoomID]].Status = "playing"
  /\ budget' = [budget EXCEPT !.frames = @ - 1]
  /\ readPump(c, action)

NextInput ==
  \/ \E u \in PlayUsers, d \in DeckChoices, r1, r2 \in Shuffles : PlayJoin(u, d, r1, r2)
  \/ \E u \in PlayUsers : PlayConnect(u)
  \/ \E c \in ClientIds : LoopRegister(c)
  \/ \E p \in Passcodes : CheckAndStartGame(p)
  \/ \E p \in Passcodes : RunBroadcastGameState(p)
  \/ LoopBroadcast
  \/ \E c \in ClientIds, a \in PlayActions : HostSends(c, a)
  \/ \E r \in Shuffles : LoopInput(r)
  \/ \E p \in Passcodes, u \in PlayUsers : BroadcastToSpecificClient(u, p)
  \/ \E c \in ClientIds : writePump(c)

SpecInput == InitInput /\ [][NextInput]_vars

(***************************************************************************)
(* SpecRematch: room "hello" right after a game in it has ended.  While    *)
(* both players of that game were game-over every tick started a delayed   *)
(* EndGameSession("hello"); the first one to wake has finalized and        *)
(* removed the session, the last one is still asleep and wakes one tick    *)
(* from now.  The objects of the old game are gone; `results` records the  *)
(* rows written from here on.  A host and a guest open the room again.     *)
(***************************************************************************)
MaxRematchAdvances == 2

InitRematch ==
  /\ now = 0
  /\ heap = [i \in SessionIds |-> Nil]
  /\ sessions = [p \in Passcodes |-> 0]
  /\ cl = [i \in ClientIds |-> Nil]
  /\ clients = [u \in Users |-> 0]
  /\ lastBroadcast = [p \in Passcodes |-> ZeroTime]
  /\ broadcast = <<>>
  /\ inputEvents = <<>>
  /\ registering = {}
  /\ loop = Idle
  /\ tasks = {[kind |-> "end", room |-> PlayRoom, wake |-> tickInterval]}
  /\ nextTick = tickInterval
  /\ results = <<>>
  /\ budget = [frames |-> 0, advances |-> MaxRematchAdvances, races |-> 0]

NextRematch ==
  \/ \E u \in PlayUsers, d \in DeckChoices, r1, r2 \in Shuffles : PlayJoin(u, d, r1, r2)
  \/ \E u \in PlayUsers : PlayConnect(u)
  \/ \E c \in ClientIds : LoopRegister(c)
  \/ \E p \in Passcodes : CheckAndStartGame(p)
  \/ \E p \in Passcodes : RunBroadcastGameState(p)
  \/ LoopBroadcast
  \/ \E c \in ClientIds : writePump(c)
  \/ LoopTick
  \/ \E id \in SessionIds, r \in Shuffles : LoopTickSession(id, r)
  \/ \E p \in Passcodes, w \in Wakes : DelayedEnd(p, w)
  \/ \E p \in Passcodes : DelayedEndCleanup(p)
  \/ LoopEndCleanup
  \/ \E c \in ClientIds : writePumpExit(c)
  \/ \E c \in ClientIds : readPumpClosed(c)
  \/ \E c \in ClientIds : readPumpClosedDropped(c)
  \/ LoopUnregister
  \/ LoopUnregisterLeft
  \/ \E d \in PlaySteps : PlayAdvance(d)

SpecRematch == InitRematch /\ [][NextRematch]_vars

(***************************************************************************)
(* SpecEngine: the rules engine by itself.  The host has created room      *)
(* "hello"; the engine's entry points ApplyPlayerInput and AutoFall are    *)
(* called on the host's PlayerState in every order, starting from a new    *)
(* state or from the state a number of hard drops has left.                *)
(***************************************************************************)
MaxEngineCalls == 4
MaxEngineFalls == 2
EngineWarmups == {0, 5, 9}
EngineActions == {"left", "right", "soft_drop", "hard_drop", "rotate",
                  "rotate_left", "hold", "bogus"}
EngineSteps == {500, 1000}

EngineSlot == SessionSlot(PlayRoom, 1)

RECURSIVE HardDrops(_, _, _)
\* n hard drops in a row
HardDrops(s, n, rnd) ==
  IF n = 0 THEN s
  ELSE HardDrops(ApplyPlayerInput(s, "hard_drop", rnd).state, n - 1, rnd)

InitEngine ==
  /\ now = 0
  /\ \E d \in DeckChoices, r1, r2 \in Shuffles, n \in EngineWarmups :
       heap = [i \in SessionIds |->
                 IF i = EngineSlot
                 THEN [NewGameSession(PlayRoom, PlayHost, d, 0, r1, r2)
                         EXCEPT !.Player1 = HardDrops(@, n, r1)]
                 ELSE Nil]
  /\ sessions = [p \in Passcodes |-> IF p = PlayRoom THEN EngineSlot ELSE 0]
  /\ cl = [i \in ClientIds |-> Nil]
  /\ clients = [u \in Users |-> 0]
  /\ lastBroadcast = [p \in Passcodes |-> ZeroTime]
  /\ broadcast = <<>>
  /\ inputEvents = <<>>
  /\ registering = {}
  /\ loop = Idle
  /\ tasks = {}
  /\ nextTick = tickInterval
  /\ results = <<>>
  /\ budget = [frames |-> MaxEngineCalls, advances |-> MaxEngineFalls, races |-> 0]

\* ApplyPlayerInput(state, action)
EngineInput(action, rnd) ==
  /\ budget.frames > 0
  /\ budget' = [budget EXCEPT !.frames = @ - 1]
  /\ heap' = [heap EXCEPT ![EngineSlot].Player1 =
                ApplyPlayerInput(@, action, rnd).state]
  /\ UNCHANGED <<now, sessions, cl, clients, lastBroadcast, broadcast,
                 inputEvents, registering, loop, tasks, nextTick, results>>

\* AutoFall(state), d ms after the last call
EngineFall(d, rnd) ==
  /\ budget.advances > 0
  /\ budget' = [budget EXCEPT !.advances = @ - 1]
  /\ now' = now + d
  /\ heap' = [heap EXCEPT ![EngineSlot].Player1 = AutoFall(@, now + d, rnd)]
  /\ UNCHANGED <<sessions, cl, clients, lastBroadcast, broadcast,
                 inputEvents, registering, loop, tasks, nextTick, results>>

NextEngine ==
  \/ \E a \in EngineActions, r \in Shuffles : EngineInput(a, r)
  \/ \E d \in EngineSteps, r \in Shuffles : EngineFall(d, r)

SpecEngine == InitEngine /\ [][NextEngine]_vars

(***************************************************************************)
(* SpecBag: the piece generator by itself.  A new PlayerState draws piece  *)
(* after piece (SpawnNewPiece: the next piece becomes the current one and  *)
(* GetNextPieceFromQueue delivers the new next piece) on an empty board;   *)
(* every refill of the queue takes its shuffle from BagShuffles.           *)
(***************************************************************************)
MaxDraws == 9

BagOrders ==
  { <<TypeI, TypeO, TypeT, TypeS, TypeZ, TypeJ, TypeL>>,
    <<TypeL, TypeJ, TypeZ, TypeS, TypeT, TypeO, TypeI>>,
    <<TypeL, TypeI, TypeO, TypeT, TypeS, TypeZ, TypeJ>>,
    <<TypeO, TypeI, TypeT, TypeS, TypeZ, TypeJ, TypeL>>,
    <<TypeJ, TypeL, TypeI, TypeO, TypeT, TypeS, TypeZ>>,
    <<TypeT, TypeS, TypeZ, TypeJ, TypeL, TypeI, TypeO>> }

\* rand.Shuffle's outcome and rand.Intn(6) + 1
BagShuffles == {[bag |-> b, swapIndex |-> k] : b \in BagOrders, k \in 1..6}

InitBag ==
  /\ now = 0
  /\ \E d \in DeckChoices, r1, r2 \in BagShuffles :
       heap = [i \in SessionIds |->
                 IF i = EngineSlot
                 THEN NewGameSession(PlayRoom, PlayHost, d, 0, r1, r2)
                 ELSE Nil]
  /\ sessions = [p \in Passcodes |-> IF p = PlayRoom THEN EngineSlot ELSE 0]
  /\ cl = [i \in ClientIds |-> Nil]
  /\ clients = [u \in Users |-> 0]
  /\ lastBroadcast = [p \in Passcodes |-> ZeroTime]
  /\ broadcast = <<>>
  /\ inputEvents = <<>>
  /\ registering = {}
  /\ loop = Idle
  /\ tasks = {}
  /\ nextTick = tickInterval
  /\ results = <<>>
  /\ budget = [frames |-> MaxDraws, advances |-> 0, races |-> 0]

\* SpawnNewPiece()
BagDraw(rnd) ==
  /\ budget.frames > 0
  /\ budget' = [budget EXCEPT !.frames = @ - 1]
  /\ heap' = [heap EXCEPT ![EngineSlot].Player1 = SpawnNewPiece(@, rnd)]
  /\ UNCHANGED <<now, sessions, cl, clients, lastBroadcast, broadcast,
                 inputEvents, registering, loop, tasks, nextTick, results>>

NextBag == \E r \in BagShuffles : BagDraw(r)

SpecBag == InitBag /\ [][NextBag]_vars

(***************************************************************************)
(* Board.ClearLines on boards and score maps of every shape                *)
(***************************************************************************)
MaxClears == 2         \* line clears run on one board
MaxLineRows == 4       \* rows above the floor that the boards fill

FullRowOf(t) == [x \in Cols |-> t]
GapRow(t, gap) == [x \in Cols |-> IF x = gap THEN BlockEmpty ELSE t]

\* rows a board is stacked from: empty, full, and rows with one hole at
\* the first, a middle and the last column
LineRows == {EmptyRow, FullRowOf(1), FullRowOf(3),
             GapRow(1, 0), GapRow(2, 9), GapRow(3, 4)}
LineTops == {EmptyRow, FullRowOf(7)}

LineBoards ==
  {[y \in Rows |-> IF y = 0 THEN top
                   ELSE IF y >= BoardHeight - MaxLineRows
                   THEN stack[BoardHeight - y]
                   ELSE EmptyRow] :
     top \in LineTops, stack \in [1..MaxLineRows -> LineRows]}

\* score maps: the one of a game without a deck, one with a different score
\* in every cell, one that records only the even columns, and an empty one
LineScoreMaps ==
  {buildContributionScoresFromDeck(<<>>),
   [k \in {ScoreKey(y, x) : y \in Rows, x \in Cols} |-> 20 * k[1] + k[2] + 1],
   [k \in {ScoreKey(y, x) : y \in Rows, x \in {0, 2, 4, 6, 8}} |-> 7],
   <<>>}

InitLines ==
  /\ now = 0
  /\ \E b \in LineBoards, m \in LineScoreMaps, r \in Shuffles :
       heap = [i \in SessionIds |->
                 IF i = EngineSlot
                 THEN [NewGameSession(PlayRoom, PlayHost, <<>>, 0, r, r)
                         EXCEPT !.Player1.Board = b,
                                !.Player1.ContributionScores = m]
                 ELSE Nil]
  /\ sessions = [p \in Passcodes |-> IF p = PlayRoom THEN EngineSlot ELSE 0]
  /\ cl = [i \in ClientIds |-> Nil]
  /\ clients = [u \in Users |-> 0]
  /\ lastBroadcast = [p \in Passcodes |-> ZeroTime]
  /\ broadcast = <<>>
  /\ inputEvents = <<>>
  /\ registering = {}
  /\ loop = Idle
  /\ tasks = {}
  /\ nextTick = tickInterval
  /\ results = <<>>
  /\ budget = [frames |-> MaxClears, advances |-> 0, races |-> 0]

\* handlePieceLock's call of Board.ClearLines and its bookkeeping
LinesClear ==
  /\ budget.frames > 0
  /\ budget' = [budget EXCEPT !.frames = @ - 1]
  /\ heap' = [heap EXCEPT ![EngineSlot].Player1 = LockLines(@)]
  /\ UNCHANGED <<now, sessions, cl, clients, lastBroadcast, broadcast,
                 inputEvents, registering, loop, tasks, nextTick, results>>

NextLines == LinesClear

SpecLines == InitLines /\ [][NextLines]_vars

(***************************************************************************)
(* The engine on players whose pieces carry the scores of a deck           *)
(***************************************************************************)
\* a placement of the deck: its blocks lie in the top rows of the grid and
\* block i of the piece of type t is worth 200 + 10 * t + i
DeckPlacementOf(t, blocks) ==
  [Type |-> t, Rotation |-> 0,
   Blocks |-> [i \in 1..blocks |-> [X |-> i - 1, Y |-> t, Score |-> 200 + 10 * t + i]]]

\* a deck that places every type, and one that places only I and T, T with
\* three blocks
EngineDecks ==
  { [i \in 1..7 |-> DeckPlacementOf(i - 1, 4)],
    <<DeckPlacementOf(TypeI, 4), DeckPlacementOf(TypeT, 3)>> }

DeckWarmups == {0, 5}

InitDeck ==
  /\ now = 0
  /\ \E d \in EngineDecks, r1, r2 \in Shuffles, n \in DeckWarmups :
       heap = [i \in SessionIds |->
                 IF i = EngineSlot
                 THEN [NewGameSession(PlayRoom, PlayHost, d, 0, r1, r2)
                         EXCEPT !.Player1 = HardDrops(@, n, r1)]
                 ELSE Nil]
  /\ sessions = [p \in Passcodes |-> IF p = PlayRoom THEN EngineSlot ELSE 0]
  /\ cl = [i \in ClientIds |-> Nil]
  /\ clients = [u \in Users |-> 0]
  /\ lastBroadcast = [p \in Passcodes |-> ZeroTime]
  /\ broadcast = <<>>
  /\ inputEvents = <<>>
  /\ registering = {}
  /\ loop = Idle
  /\ tasks = {}
  /\ nextTick = tickInterval
  /\ results = <<>>
  /\ budget = [frames |-> MaxEngineCalls, advances |-> MaxEngineFalls, races |-> 0]

SpecDeck == InitDeck /\ [][NextEngine]_vars

(***************************************************************************)
(* The lock sequence on players with a history of line clears              *)
(***************************************************************************)
\* lines cleared so far, clears in a row and back-to-back flag a player can
\* have: a clear in a row has cleared a line, the flag needs a clear of four
ComboHistories ==
  {h \in [LinesCleared : {0, 4, 8, 23, 64},
          ConsecutiveClears : 0..3,
          BackToBack : BOOLEAN] :
     /\ h.ConsecutiveClears <= h.LinesCleared
     /\ h.BackToBack => (h.ConsecutiveClears >= 1
                         /\ h.LinesCleared >= h.ConsecutiveClears + 3)}

InitCombo ==
  /\ now = 0
  /\ \E b \in {c \in LineBoards : c[0] = EmptyRow}, h \in ComboHistories,
        r \in Shuffles :
       heap = [i \in SessionIds |->
                 IF i = EngineSlot
                 THEN [NewGameSession(PlayRoom, PlayHost, <<>>, 0, r, r)
                         EXCEPT !.Player1.Board = b,
                                !.Player1.LinesCleared = h.LinesCleared,
                                !.Player1.Level = h.LinesCleared \div LevelUpLines + 1,
                                !.Player1.ConsecutiveClears = h.ConsecutiveClears,
                                !.Player1.BackToBack = h.BackToBack]
                 ELSE Nil]
  /\ sessions = [p \in Passcodes |-> IF p = PlayRoom THEN EngineSlot ELSE 0]
  /\ cl = [i \in ClientIds |-> Nil]
  /\ clients = [u \in Users |-> 0]
  /\ lastBroadcast = [p \in Passcodes |-> ZeroTime]
  /\ broadcast = <<>>
  /\ inputEvents = <<>>
  /\ registering = {}
  /\ loop = Idle
  /\ tasks = {}
  /\ nextTick = tickInterval
  /\ results = <<>>
  /\ budget = [frames |-> MaxClears, advances |-> 0, races |-> 0]

SpecCombo == InitCombo /\ [][NextLines]_vars

(***************************************************************************)
(* One connection: the tasks that send to and close its outbound queue,    *)
(* and its write pump with the writes that fail                            *)
(***************************************************************************)
MaxConnSends == 4      \* calls of SafeSend
MaxPumpWrites == 4     \* frames the write pump takes from the queue
MaxPings == 1          \* pings of the write pump

ConnSlot == ClientSlot(PlayHost, 1)

\* frames left unsent in the queue when the tasks start
ConnBacklogs == {0, ChannelCap - 2}

\* the goroutine of writePump with its local consecutiveErrors
PumpOf(c, n) == [kind |-> "writePump", conn |-> c, consecutiveErrors |-> n]

InitConn ==
  /\ now = 0
  /\ \E r \in Shuffles, n \in ConnBacklogs :
       /\ heap = [i \in SessionIds |->
                    IF i = EngineSlot
                    THEN NewGameSession(PlayRoom, PlayHost, <<>>, 0, r, r)
                    ELSE Nil]
       /\ cl = [i \in ClientIds |->
                  IF i = ConnSlot
                  THEN [NewClient(PlayHost, PlayRoom) EXCEPT
                          !.Send = [k \in 1..n |->
                             ToLightweight(NewGameSession(PlayRoom, PlayHost,
                                                          <<>>, 0, r, r), 0)]]
                  ELSE Nil]
  /\ sessions = [p \in Passcodes |-> IF p = PlayRoom THEN EngineSlot ELSE 0]
  /\ clients = [u \in Users |-> IF u = PlayHost THEN ConnSlot ELSE 0]
  /\ lastBroadcast = [p \in Passcodes |-> ZeroTime]
  /\ broadcast = <<>>
  /\ inputEvents = <<>>
  /\ registering = {}
  /\ loop = Idle
  /\ tasks = {PumpOf(ConnSlot, 0)}
  /\ nextTick = tickInterval
  /\ results = <<>>
  /\ budget = [frames |-> MaxConnSends, advances |-> MaxPumpWrites,
               races |-> MaxPings]

\* client.SafeSend(stateJSON) by one of the tasks that hold the client
ConnSend(c) ==
  /\ cl[c] # Nil
  /\ budget.frames > 0
  /\ budget' = [budget EXCEPT !.frames = @ - 1]
  /\ cl' = [cl EXCEPT ![c] = SafeSend(@, ToLightweight(heap[sessions[@.RoomID]], now))]
  /\ UNCHANGED <<now, heap, sessions, clients, lastBroadcast, broadcast,
                 inputEvents, registering, loop, tasks, nextTick, results>>

\* client.SafeClose() by one of the tasks that hold the client
ConnClose(c) ==
  /\ cl[c] # Nil
  /\ cl' = [cl EXCEPT ![c] = SafeClose(@)]
  /\ UNCHANGED <<now, heap, sessions, clients, lastBroadcast, broadcast,
                 inputEvents, registering, loop, tasks, nextTick, results,
                 budget>>

\* the deferred function of writePump: Conn.Close()
PumpReturns(c, n) ==
  /\ cl' = [cl EXCEPT ![c].Send = IF @ = <<>> THEN @ ELSE Tail(@),
                      ![c].wp = "done", ![c].connOpen = FALSE]
  /\ tasks' = tasks \ {PumpOf(c, n)}

\* case message, ok := <-c.Send with a frame: WriteMessage succeeds or fails
PumpWrite(c, n, written) ==
  /\ PumpOf(c, n) \in tasks
  /\ cl[c].Send # <<>>
  /\ budget.advances > 0
  /\ budget' = [budget EXCEPT !.advances = @ - 1]
  /\ IF written
     THEN /\ cl' = [cl EXCEPT ![c].Send = Tail(@)]
          /\ tasks' = (tasks \ {PumpOf(c, n)}) \cup {PumpOf(c, 0)}
     ELSE IF n + 1 >= 3
     THEN PumpReturns(c, n)
     ELSE /\ cl' = [cl EXCEPT ![c].Send = Tail(@)]
          /\ tasks' = (tasks \ {PumpOf(c, n)}) \cup {PumpOf(c, n + 1)}
  /\ UNCHANGED <<now, heap, sessions, clients, lastBroadcast, broadcast,
                 inputEvents, registering, loop, nextTick, results>>

\* case message, ok := <-c.Send on the closed and drained queue
PumpClosed(c, n) ==
  /\ PumpOf(c, n) \in tasks
  /\ cl[c].Send = <<>> /\ cl[c].closed
  /\ PumpReturns(c, n)
  /\ UNCHANGED <<now, heap, sessions, clients, lastBroadcast, broadcast,
                 inputEvents, registering, loop, nextTick, results, budget>>

\* case <-ticker.C: the ping is written or fails
PumpPing(c, n, written) ==
  /\ PumpOf(c, n) \in tasks
  /\ budget.races > 0
  /\ budget' = [budget EXCEPT !.races = @ - 1]
  /\ IF written
     THEN UNCHANGED <<cl, tasks>>
     ELSE /\ cl' = [cl EXCEPT ![c].wp = "done", ![c].connOpen = FALSE]
          /\ tasks' = tasks \ {PumpOf(c, n)}
  /\ UNCHANGED <<now, heap, sessions, clients, lastBroadcast, broadcast,
                 inputEvents, registering, loop, nextTick, results>>

NextConn ==
  \/ ConnSend(ConnSlot)
  \/ ConnClose(ConnSlot)
  \/ \E n \in 0..2, w \in BOOLEAN : PumpWrite(ConnSlot, n, w)
  \/ \E n \in 0..2 : PumpClosed(ConnSlot, n)
  \/ \E n \in 0..2, w \in BOOLEAN : PumpPing(ConnSlot, n, w)

SpecConn == InitConn /\ [][NextConn]_vars

(***************************************************************************)
(* SpecSnap: the first second of a game in one room, with the targeted     *)
(* send taken apart.  BroadcastToSpecificClient builds its JSON under the  *)
(* read lock, releases the lock and only then calls SafeSend; the loop and *)
(* the other goroutines run in between.  The host hard-drops up to         *)
(* MaxSnapFrames times, whatever else is under way.                        *)
(***************************************************************************)
MaxSnapFrames == 3

InitSnap ==
  /\ now = 0
  /\ heap = [i \in SessionIds |-> Nil]
  /\ sessions = [p \in Passcodes |-> 0]
  /\ cl = [i \in ClientIds |-> Nil]
  /\ clients = [u \in Users |-> 0]
  /\ lastBroadcast = [p \in Passcodes |-> ZeroTime]
  /\ broadcast = <<>>
  /\ inputEvents = <<>>
  /\ registering = {}
  /\ loop = Idle
  /\ tasks = {}
  /\ nextTick = tickInterval
  /\ results = <<>>
  /\ budget = [frames |-> MaxSnapFrames, advances |-> 0, races |-> 0]

SnapSends(c) ==
  /\ Len(inputEvents) < MaxQueued
  /\ budget.frames > 0
  /\ cl[c] # Nil /\ clients[PlayHost] = c
  /\ sessions[cl[c].RoomID] # 0
  /\ heap[sessions[cl[c].RoomID]].Status = "playing"
  /\ budget' = [budget EXCEPT !.frames = @ - 1]
  /\ readPump(c, "hard_drop")

\* BroadcastToSpecificClient up to the release of the read lock: the session
\* and the client are looked up and the snapshot is serialised
SpecificMarshal(userID, passcode) ==
  /\ [kind |-> "specific", room |-> passcode, user |-> userID] \in tasks
  /\ tasks' = (tasks \ {[kind |-> "specific", room |-> passcode, user |-> userID]})
       \cup (IF sessions[passcode] = 0 \/ clients[userID] = 0 THEN {}
             ELSE {[kind |-> "send", conn |-> clients[userID],
                    stateJSON |-> ToLightweight(heap[sessions[passcode]], now)]})
  /\ UNCHANGED <<now, heap, sessions, cl, clients, lastBroadcast, broadcast,
                 inputEvents, registering, loop, nextTick, results, budget>>

\* ... and its SafeSend, on the client it looked up
SpecificSend(c, stateJSON) ==
  /\ [kind |-> "send", conn |-> c, stateJSON |-> stateJSON] \in tasks
  /\ tasks' = tasks \ {[kind |-> "send", conn |-> c, stateJSON |-> stateJSON]}
  /\ cl' = [cl EXCEPT ![c] = SafeSend(@, stateJSON)]
  /\ UNCHANGED <<now, heap, sessions, clients, lastBroadcast, broadcast,
                 inputEvents, registering, loop, nextTick, results, budget>>

\* the snapshots serialised for a client and not yet sent
Marshalled(c) ==
  {t.stateJSON : t \in {u \in tasks : u.kind = "send" /\ u.conn = c}}

NextSnap ==
  \/ \E u \in PlayUsers, d \in DeckChoices, r1, r2 \in Shuffles : PlayJoin(u, d, r1, r2)
  \/ \E u \in PlayUsers : PlayConnect(u)
  \/ \E c \in ClientIds : LoopRegister(c)
  \/ \E p \in Passcodes : CheckAndStartGame(p)
  \/ \E p \in Passcodes : RunBroadcastGameState(p)
  \/ LoopBroadcast
  \/ \E c \in ClientIds : SnapSends(c)
  \/ \E r \in Shuffles : LoopInput(r)
  \/ \E p \in Passcodes, u \in PlayUsers : SpecificMarshal(u, p)
  \/ \E c \in ClientIds : \E m \in Marshalled(c) : SpecificSend(c, m)
  \/ \E c \in ClientIds : writePump(c)

SpecSnap == InitSnap /\ [][NextSnap]_vars

(***************************************************************************)
(* SpecLock: the engine on players whose next lock completes rows.  The    *)
(* pieces carry the scores of a deck; the two rows on the floor are empty  *)
(* or filled up to the cells the current piece takes when it is dropped    *)
(* where it spawns, with or without one more hole at the wall.             *)
(***************************************************************************)
MaxLockCalls == 2
LockWarmups == {0, 1, 2}

\* a row filled except for the cells of the piece p in it and the columns
\* in holes
FitRow(p, y, holes) ==
  [x \in Cols |->
     IF x \in holes
        \/ \E i \in 1..Len(Blocks(p)) :
             p.X + Blocks(p)[i][1] = x /\ p.Y + Blocks(p)[i][2] = y
     THEN BlockEmpty ELSE 1]

\* the current piece of s where it comes to rest on board b
RestsAt(s, b) ==
  [s.CurrentPiece EXCEPT !.Y = @ + DropDistanceFrom(b, s.CurrentPiece, 0)]

\* the boards of s: no row is full and the piece still reaches the floor
LockBoards(s) ==
  {b \in {[y \in Rows |->
             IF y >= BoardHeight - 2 THEN rows[BoardHeight - y] ELSE EmptyRow] :
          rows \in [1..2 -> {EmptyRow} \cup
                     {FitRow(RestsAt(s, NewBoard), y, holes) :
                        y \in {BoardHeight - 2, BoardHeight - 1},
                        holes \in {{}, {0}}}]} :
     /\ \A y \in Rows : \E x \in Cols : b[y][x] = BlockEmpty
     /\ RestsAt(s, b) = RestsAt(s, NewBoard)}

InitLock ==
  /\ now = 0
  /\ \E d \in EngineDecks, r \in Shuffles, n \in LockWarmups :
       \E b \in LockBoards(HardDrops(
                  NewGameSession(PlayRoom, PlayHost, d, 0, r, r).Player1, n, r)) :
         heap = [i \in SessionIds |->
                   IF i = EngineSlot
                   THEN [NewGameSession(PlayRoom, PlayHost, d, 0, r, r)
                           EXCEPT !.Player1 = [HardDrops(@, n, r) EXCEPT !.Board = b]]
                   ELSE Nil]
  /\ sessions = [p \in Passcodes |-> IF p = PlayRoom THEN EngineSlot ELSE 0]
  /\ cl = [i \in ClientIds |-> Nil]
  /\ clients = [u \in Users |-> 0]
  /\ lastBroadcast = [p \in Passcodes |-> ZeroTime]
  /\ broadcast = <<>>
  /\ inputEvents = <<>>
  /\ registering = {}
  /\ loop = Idle
  /\ tasks = {}
  /\ nextTick = tickInterval
  /\ results = <<>>
  /\ budget = [frames |-> MaxLockCalls, advances |-> 1, races |-> 0]

SpecLock == InitLock /\ [][NextEngine]_vars

(***************************************************************************)
(* Properties                                                              *)
(***************************************************************************)
StatusSteps == {<<"waiting", "playing">>, <<"playing", "finished">>}

\* C1: a session's status changes only by the steps waiting -> playing and
\* playing -> finished.
C1_StatusStepsOnly ==
  [][\A i \in SessionIds :
       (heap[i] # Nil /\ heap'[i] # Nil /\ heap[i].Status # heap'[i].Status)
         => <<heap[i].Status, heap'[i].Status>> \in StatusSteps]_vars

\* a live connection of the user, registered for the room
LiveConnection(userID, room) ==
  /\ clients[userID] # 0
  /\ cl[clients[userID]].RoomID = room
  /\ cl[clients[userID]].connOpen
  /\ ~cl[clients[userID]].closed

Started(i) ==
  /\ heap[i] # Nil /\ heap[i].Status = "waiting"
  /\ heap'[i] # Nil /\ heap'[i].Status = "playing"

\* C2: a session goes from waiting to playing only when both players are set
\* and each has a live connection registered for that room; the step sets
\* startedAt to the current time.
C2_StartOnlyWhenReady ==
  [][\A i \in SessionIds :
       Started(i) =>
         /\ heap[i].Player1 # Nil /\ heap[i].Player2 # Nil
         /\ LiveConnection(heap[i].Player1.UserID, heap[i].ID)
         /\ LiveConnection(heap[i].Player2.UserID, heap[i].ID)
         /\ heap'[i].StartedAt = now]_vars

\* a waiting session with both players set and both connected
BothReady(i) ==
  /\ heap[i] # Nil /\ sessions[heap[i].ID] = i
  /\ heap[i].Status = "waiting"
  /\ heap[i].Player1 # Nil /\ heap[i].Player2 # Nil
  /\ LiveConnection(heap[i].Player1.UserID, heap[i].ID)
  /\ LiveConnection(heap[i].Player2.UserID, heap[i].ID)

HasStarted(i) ==
  heap[i] # Nil /\ heap[i].Status = "playing" /\ heap[i].StartedAt # ZeroTime

PlayerLeft(i) ==
  \/ heap[i] = Nil
  \/ heap[i].Player1 = Nil \/ heap[i].Player2 = Nil
  \/ ~LiveConnection(heap[i].Player1.UserID, heap[i].ID)
  \/ ~LiveConnection(heap[i].Player2.UserID, heap[i].ID)

\* C3: whatever the order of the joins and the registrations, a waiting
\* session with both players set and both connected eventually becomes
\* playing with startedAt set, unless a player's connection goes away first.
C3_ReadySessionStarts ==
  \A i \in SessionIds : BothReady(i) ~> (HasStarted(i) \/ PlayerLeft(i))

JoinOk(passcode, isNew) == [id |-> passcode, isNew |-> isNew, err |-> "none"]

\* a waiting session without Player2 whose Player1 is another player
OpenFor(passcode, playerID) ==
  /\ sessions[passcode] # 0
  /\ heap[sessions[passcode]].Status = "waiting"
  /\ heap[sessions[passcode]].Player2 = Nil
  /\ heap[sessions[passcode]].Player1.UserID # playerID

HelloOfAAndB ==
  /\ sessions["hello"] # 0
  /\ heap[sessions["hello"]].Status = "waiting"
  /\ heap[sessions["hello"]].Player1 # Nil
  /\ heap[sessions["hello"]].Player1.UserID = "A"
  /\ heap[sessions["hello"]].Player2 # Nil
  /\ heap[sessions["hello"]].Player2.UserID = "B"

\* C5: after A has created "hello" and B has joined it, a further join by A
\* is rejected with 'cannot join own room' and a join by C with 'room is
\* full'.
C5_RejoinErrors ==
  HelloOfAAndB =>
    /\ JoinResult("hello", "A") = JoinError("cannot join own room")
    /\ JoinResult("hello", "C") = JoinError("room is full")

\* the players of a session, once set, stay the same participants
PlayersKept(i) ==
  heap[i] # Nil =>
    /\ heap'[i] # Nil
    /\ heap'[i].Player1 # Nil
    /\ heap'[i].Player1.UserID = heap[i].Player1.UserID
    /\ heap[i].Player2 # Nil =>
         /\ heap'[i].Player2 # Nil
         /\ heap'[i].Player2.UserID = heap[i].Player2.UserID

\* a room has one Player1, at most one other participant as Player2, and
\* every further call returns an error
OneHostOneGuest(p) ==
  sessions[p] # 0 =>
    /\ heap[sessions[p]].Player1 # Nil
    /\ JoinResult(p, heap[sessions[p]].Player1.UserID).err # "none"
    /\ heap[sessions[p]].Player2 # Nil =>
         /\ heap[sessions[p]].Player2.UserID # heap[sessions[p]].Player1.UserID
         /\ \A u \in Users : JoinResult(p, u).err # "none"

\* C6: of the join calls on one passphrase, in any order, one caller becomes
\* Player1, at most one other caller becomes Player2, every other call
\* returns an error, and neither player of the session is ever replaced.
C6_PlayersSetOnce ==
  /\ [](\A p \in Passcodes : OneHostOneGuest(p))
  /\ [][\A i \in SessionIds : PlayersKept(i)]_vars

\* three callers on "hello": B created it, C joined it, A is turned away
C6_Witness ==
  /\ sessions["hello"] # 0
  /\ heap[sessions["hello"]].Player1.UserID = "B"
  /\ heap[sessions["hello"]].Player2 # Nil
  /\ heap[sessions["hello"]].Player2.UserID = "C"
  /\ JoinResult("hello", "A").err = "room is full"

\* the step of RegisterClient that stores a new Client for the user
Registers(u) ==
  /\ clients'[u] # 0
  /\ cl[clients'[u]] = Nil

\* C7: Register never adds a connection to the registry, nor starts its
\* pumps, when the user is neither Player1 nor Player2 of the room named.
C7_RegisterOnlyParticipants ==
  [][\A u \in Users :
       Registers(u) =>
         /\ sessions[cl'[clients'[u]].RoomID] # 0
         /\ IsPlayerOf(u, heap[sessions[cl'[clients'[u]].RoomID]])]_vars

PlayerFields == {"Player1", "Player2"}

\* the loop takes an input event from its queue
InputTaken == inputEvents # <<>> /\ inputEvents' = Tail(inputEvents)

\* the sender's room, by its registered connection
SenderRoom(event) == cl[clients[event.UserID]].RoomID

\* the conditions under which an input may change a PlayerState
InputEligible(event) ==
  /\ clients[event.UserID] # 0
  /\ sessions[SenderRoom(event)] # 0
  /\ heap[sessions[SenderRoom(event)]].Status = "playing"
  /\ \E f \in PlayerFields :
       /\ heap[sessions[SenderRoom(event)]][f] # Nil
       /\ heap[sessions[SenderRoom(event)]][f].UserID = event.UserID
       /\ ~heap[sessions[SenderRoom(event)]][f].IsGameOver

\* whatever changes is the sender's own PlayerState
OwnStateOnly(event) ==
  \A i \in SessionIds :
    heap'[i] # heap[i] =>
      /\ heap[i] # Nil
      /\ \E f \in PlayerFields :
           /\ heap[i][f] # Nil
           /\ heap[i][f].UserID = event.UserID
           /\ heap'[i] = [heap[i] EXCEPT ![f] = heap'[i][f]]

ExactlyOneGameOver(session) ==
  /\ session.Player1 # Nil /\ session.Player2 # Nil
  /\ session.Player1.IsGameOver # session.Player2.IsGameOver

\* a playing session with one player left, both connections alive, time left
OneLeftPlaying(i) ==
  /\ heap[i] # Nil /\ heap[i].Status = "playing"
  /\ ExactlyOneGameOver(heap[i])
  /\ LiveConnection(heap[i].Player1.UserID, heap[i].ID)
  /\ LiveConnection(heap[i].Player2.UserID, heap[i].ID)
  /\ now - heap[i].StartedAt < heap[i].TimeLimit

\* the loop finishes its tick work on session i
TickDone(i) ==
  /\ loop.pc = "tick" /\ i \in loop.todo
  /\ loop' = Idle \/ (loop'.pc = "tick" /\ i \notin loop'.todo)

\* C9: while exactly one player of a playing session is game-over, nobody
\* has disconnected and the time limit has not elapsed, every step leaves the
\* session playing and the game-over player's state as it is (so that
\* player's inputs have no effect), and a tick applies the auto-fall to the
\* other player.
C9_OneGameOverKeepsPlaying ==
  [][\A i \in SessionIds : OneLeftPlaying(i) =>
       /\ heap'[i] # Nil /\ heap'[i].Status = "playing"
       /\ \A f \in PlayerFields :
            /\ heap[i][f].IsGameOver => heap'[i][f] = heap[i][f]
            /\ (~heap[i][f].IsGameOver /\ TickDone(i)) =>
                 \E r \in Shuffles : heap'[i][f] = AutoFall(heap[i][f], now, r)]_vars

\* Player1 is game-over, a frame of Player1 has been dropped by the loop and
\* a later tick has moved Player2's piece
C9_Witness ==
  \E i \in SessionIds :
    /\ OneLeftPlaying(i)
    /\ heap[i].Player1.IsGameOver
    /\ heap[i].Player2.lastFallTime > heap[i].StartedAt
    /\ heap[i].Player2.lastFallTime > heap[i].Player1.lastFallTime

\* the sessions of the room the players of SpecPlay use
PlaySessions == {SessionSlot(PlayRoom, g) : g \in 1..SessionGens}

\* the delayed EndGameSession calls pending for a room
EndTasks(room) == {t \in tasks : t.kind = "end" /\ t.room = room}

\* session i is its room's session and is playing with both players
\* game-over, and the grace delay of the first tick that saw this is running
InGrace(i) ==
  /\ heap[i] # Nil /\ sessions[heap[i].ID] = i
  /\ heap[i].Status = "playing" /\ BothGameOver(heap[i])
  /\ EndTasks(heap[i].ID) # {}
  /\ \A t \in EndTasks(heap[i].ID) : now < t.wake

\* session i is finished and no longer in the registry
Gone(i) == heap[i] # Nil /\ heap[i].Status = "finished" /\ sessions[heap[i].ID] # i

\* the model's clock has no step left to reach a sleeper's wake-up time
ClockStopped ==
  budget.advances = 0 /\ \E t \in tasks : t.kind = "end" /\ now < t.wake

\* C10, as claimed: once a tick has found both players of a playing session
\* game-over, the session stays playing during the 2 s grace delay, and then
\* eventually is finished and removed from the registry.
C10_GraceThenFinished ==
  /\ [][\A i \in SessionIds : InGrace(i) => heap'[i].Status = "playing"]_vars
  /\ \A i \in PlaySessions : InGrace(i) ~> (Gone(i) \/ ClockStopped)

\* C10, amended: during the grace delay the session stays playing unless the
\* time limit has elapsed (the next tick then finalizes it) or a participant
\* disconnects; in every case it eventually is finished and removed.
C10_GraceUnlessTimeUp ==
  /\ [][\A i \in SessionIds : InGrace(i) =>
          \/ heap'[i].Status = "playing"
          \/ IsTimeUp(heap[i], now)
          \/ loop.pc = "left"]_vars
  /\ \A i \in PlaySessions : InGrace(i) ~> (Gone(i) \/ ClockStopped)

\* a session with both players game-over was finalized by the delayed call,
\* before its time limit, and has been removed
C10_Witness ==
  \E i \in SessionIds :
    /\ Gone(i) /\ BothGameOver(heap[i])
    /\ heap[i].EndedAt - heap[i].StartedAt < heap[i].TimeLimit
    /\ heap[i].EndedAt - heap[i].StartedAt >= graceDelay

\* the time limit of a playing session has elapsed
TimeIsUp(i) ==
  heap[i] # Nil /\ heap[i].Status = "playing"
  /\ now - heap[i].StartedAt >= heap[i].TimeLimit

\* the loop's ticker case deals with session i
TickHandles(i) ==
  /\ loop.pc = "tick" /\ i \in loop.todo
  /\ loop' # loop
  /\ ~(loop'.pc = "tick" /\ i \in loop'.todo)

\* the rows the result sink gets for the two players of a session
FinalRows(session) ==
  <<[UserID |-> session.Player1.UserID, Score |-> session.Player1.Score],
    [UserID |-> session.Player2.UserID, Score |-> session.Player2.Score]>>

\* C11: a playing session whose time limit has elapsed is finished by the
\* next tick: the tick that handles it sets it finished, applies no auto-fall
\* to its players and hands the result sink one row per player with the
\* final score; no tick leaves such a session playing.
C11_TimeUpFinishedAtTick ==
  /\ [](\A i \in SessionIds : (loop = Idle /\ now < nextTick) => ~TimeIsUp(i))
  /\ [][\A i \in SessionIds : (TimeIsUp(i) /\ TickHandles(i)) =>
          /\ heap'[i].Status = "finished"
          /\ heap'[i].EndedAt = now
          /\ heap'[i].Player1 = heap[i].Player1
          /\ heap'[i].Player2 = heap[i].Player2
          /\ results' = results \o FinalRows(heap[i])]_vars

\* a session was finalized at its time limit and both rows are stored
C11_Witness ==
  \E i \in SessionIds :
    /\ heap[i] # Nil /\ heap[i].Status = "finished"
    /\ heap[i].EndedAt - heap[i].StartedAt >= heap[i].TimeLimit
    /\ results = FinalRows(heap[i])
    /\ heap[i].Player1.Score > 0

\* the finalization of its room closes the outbound queue of connection c
FinalClose(c) ==
  /\ cl[c] # Nil /\ ~cl[c].closed /\ cl'[c].closed
  /\ sessions[cl[c].RoomID] # 0 /\ sessions'[cl[c].RoomID] = 0

\* C12: whenever the finalization of a session closes the outbound queue of
\* a connection registered for the room, a snapshot showing status finished
\* and remaining time 0 has been queued for that connection before.
C12_LastSnapshotBeforeClose ==
  [][\A c \in ClientIds : FinalClose(c) => cl[c].finalSeen]_vars

\* one row per present player of a session
RowsOf(session) ==
  (IF session.Player1 = Nil THEN <<>>
   ELSE <<[UserID |-> session.Player1.UserID, Score |-> session.Player1.Score]>>)
  \o (IF session.Player2 = Nil THEN <<>>
      ELSE <<[UserID |-> session.Player2.UserID, Score |-> session.Player2.Score]>>)

\* a delayed EndGameSession call for room p is made in this step
DelayedCall(p) == \E t \in EndTasks(p) : t \notin tasks'

\* this step finalizes session i, once and with one row per present player
FinalizesOnce(i) ==
  /\ heap' = [heap EXCEPT ![i] = [@ EXCEPT !.Status = "finished", !.EndedAt = now]]
  /\ results' = results \o RowsOf(heap[i])

\* C13: of the EndGameSession calls made for a session exactly one finalizes
\* it, setting status and endedAt and storing one row per present player;
\* a finished session never changes again, and a delayed call either
\* finalizes the playing session with both players game-over for which it
\* was spawned or changes nothing.
C13_OneCallFinalizes ==
  /\ [][\A i \in SessionIds :
          (heap[i] # Nil /\ heap[i].Status = "finished") =>
             (heap'[i] = heap[i] /\ results' = results)]_vars
  /\ [][\A p \in Passcodes : DelayedCall(p) =>
          \/ heap' = heap /\ results' = results
          \/ /\ sessions[p] # 0
             /\ heap[sessions[p]].Status = "playing"
             /\ BothGameOver(heap[sessions[p]])
             /\ FinalizesOnce(sessions[p])]_vars

\* EndGameSession sets a session finished in this step
Finalizes(i) ==
  heap[i] # Nil /\ heap[i].Status # "finished" /\ heap'[i].Status = "finished"

\* EndGameSession(p) returns in this step, having removed the session
EndCompletes(p) == sessions[p] # 0 /\ sessions'[p] = 0

\* the registry entries and the connections of the rooms other than p
OthersUntouched(p) ==
  /\ \A q \in Passcodes \ {p} : sessions'[q] = sessions[q]
  /\ \A c \in ClientIds : (cl[c] # Nil /\ cl[c].RoomID # p) => cl'[c] = cl[c]
  /\ \A u \in Users :
       (clients[u] # 0 /\ cl[clients[u]].RoomID # p) => clients'[u] = clients[u]

\* C14: when EndGameSession(p) completes on an unfinished session, the
\* session has left the registry, no connection of room p is registered, the
\* outbound queue of every connection of room p is closed, and the sessions
\* and connections of the other rooms are as they were before the call.
C14_EndRemovesRoomOnly ==
  /\ [][\A i \in SessionIds : Finalizes(i) =>
          /\ \A j \in SessionIds \ {i} : heap'[j] = heap[j]
          /\ sessions' = sessions /\ cl' = cl /\ clients' = clients]_vars
  /\ [][\A p \in Passcodes : EndCompletes(p) =>
          /\ heap' = heap
          /\ heap[sessions[p]].Status = "finished"
          /\ \A u \in Users : clients'[u] # 0 => cl'[clients'[u]].RoomID # p
          /\ \A c \in ClientIds : (cl[c] # Nil /\ cl[c].RoomID = p) => cl'[c].closed
          /\ OthersUntouched(p)]_vars

\* room "hello" was finalized and removed while a connection of room
\* "xyz123" is registered and open
C14_Witness ==
  /\ sessions["hello"] = 0 /\ sessions["xyz123"] # 0
  /\ \E i \in SessionIds :
       heap[i] # Nil /\ heap[i].ID = "hello" /\ heap[i].Status = "finished"
  /\ \E c \in ClientIds : cl[c] # Nil /\ cl[c].RoomID = "hello" /\ cl[c].closed
  /\ \E u \in Users :
       clients[u] # 0 /\ cl[clients[u]].RoomID = "xyz123" /\ ~cl[clients[u]].closed

\* the read pump of connection c ends in this step; c is the registered
\* connection of a participant of a playing room
PumpEndsWhilePlaying(c) ==
  /\ cl[c] # Nil /\ cl[c].rp = "run" /\ cl'[c].rp = "done"
  /\ clients[cl[c].UserID] = c
  /\ sessions[cl[c].RoomID] # 0
  /\ heap[sessions[cl[c].RoomID]].Status = "playing"
  /\ IsPlayerOf(cl[c].UserID, heap[sessions[cl[c].RoomID]])

\* C15: when the connection of a participant is closed or fails while its
\* room is playing, the read pump's unregister request reaches the loop; the
\* loop then removes the connection from the registry and, the room still
\* playing, sets the session finished.
C15_DisconnectFinishes ==
  /\ [][\A c \in ClientIds : PumpEndsWhilePlaying(c) =>
          (loop'.pc = "unregister" /\ loop'.client = c)]_vars
  /\ [][(loop.pc = "unregister" /\ loop' # loop) =>
          clients'[cl[loop.client].UserID] # loop.client]_vars
  /\ [][(/\ loop.pc = "left" /\ loop' # loop
          /\ sessions[cl[loop.client].RoomID] # 0
          /\ heap[sessions[cl[loop.client].RoomID]].Status = "playing") =>
          heap'[sessions[cl[loop.client].RoomID]].Status = "finished"]_vars

\* a broadcast event for room p is enqueued in this step
Enqueued(p) == broadcast' = Append(broadcast, p)

\* the 1000 ms window of the last event enqueued for room p is still open
InWindow(p) ==
  lastBroadcast[p] # ZeroTime /\ now - lastBroadcast[p] < 1000

\* a BroadcastGameState(p) goroutine makes its call in this step
BroadcastCall(p) ==
  [kind |-> "bcast", room |-> p] \in tasks
  /\ [kind |-> "bcast", room |-> p] \notin tasks'

\* C16: a broadcast event for a room is enqueued only when no event for the
\* room was enqueued during the last 1000 ms, the time of the enqueue being
\* recorded for the room and never set back, so that any 1000 ms window holds
\* at most one event of the room; a request made inside the window changes
\* nothing; and a step queues at most one frame for a connection.
C16_OneBroadcastPerWindow ==
  /\ [][\A p \in Passcodes :
          /\ Enqueued(p) => (~InWindow(p) /\ lastBroadcast'[p] = now)
          /\ lastBroadcast'[p] >= lastBroadcast[p]
          /\ (BroadcastCall(p) /\ InWindow(p)) =>
               /\ broadcast' = broadcast /\ lastBroadcast' = lastBroadcast
               /\ cl' = cl /\ heap' = heap]_vars
  /\ [][\A c \in ClientIds :
          cl[c] # Nil => Len(cl'[c].Send) <= Len(cl[c].Send) + 1]_vars

\* the room's second event was enqueued a full window after the first, at a
\* tick, and is waiting for the loop
C16_Witness ==
  /\ lastBroadcast[PlayRoom] >= 1000
  /\ lastBroadcast[PlayRoom] = now
  /\ broadcast = <<PlayRoom>>

\* player f of the playing session i went game-over before the first tick
\* of the game was due, that is, by an input
OverByInput(i, f) ==
  /\ heap[i] # Nil /\ heap[i].Status = "playing" /\ sessions[heap[i].ID] = i
  /\ heap[i][f] # Nil /\ heap[i][f].IsGameOver
  /\ now < heap[i].StartedAt + tickInterval

\* C17: when an input has made a player game-over, a snapshot showing it is
\* sent to the connections of both participants without waiting for a tick:
\* once the manager has handled the input and has nothing left to do, before
\* the next tick, every participant's connection has been sent such a
\* snapshot.
C17_GameOverShownAtOnce ==
  \A i \in SessionIds : \A f \in PlayerFields :
    (AtRest /\ OverByInput(i, f)) =>
       \A g \in PlayerFields :
         LiveConnection(heap[i][g].UserID, heap[i].ID) =>
           heap[i][f].UserID \in cl[clients[heap[i][g].UserID]].overSeen

\* what a snapshot shows of a player: piece, board, score, held piece, game-over
Shown(ps) ==
  IF ps = Nil THEN Nil
  ELSE <<ps.CurrentPiece, ps.Board, ps.Score, ps.HeldPiece, ps.IsGameOver>>

\* the input taken by the loop changes what is shown of some player
InputChanges ==
  \E i \in SessionIds : \E f \in PlayerFields :
    heap[i] # Nil /\ Shown(heap'[i][f]) # Shown(heap[i][f])

\* the goroutine that sends the targeted snapshot to a participant of a room
TargetedSend(userID) ==
  {[kind |-> "specific", room |-> p, user |-> userID] : p \in Passcodes}

\* after a changing input the targeted send to its sender is under way
\* (sends that have not run yet are one send: they show the same state)
ChangeIsAnswered ==
  InputTaken /\ InputChanges =>
    tasks' \cap TargetedSend(Head(inputEvents).UserID) # {}

\* an input that changes nothing starts no send
NoChangeNoSend == InputTaken /\ ~InputChanges => tasks' = tasks

\* a game in its first second, after the first input: every snapshot queued
\* for a connection stems from an input
InputsOnly(i) ==
  /\ heap[i] # Nil /\ heap[i].Status = "playing" /\ sessions[heap[i].ID] = i
  /\ now < heap[i].StartedAt + tickInterval
  /\ \E f \in PlayerFields : heap[i][f].Board # NewBoard

\* a snapshot is queued for connection c
Queued(c) ==
  /\ cl[c] # Nil /\ cl'[c] # Nil
  /\ Len(cl'[c].Send) > Len(cl[c].Send)

\* snapshots that stem from an input go to its sender's connection
OnlyToSender ==
  \A i \in SessionIds : \A c \in ClientIds :
    InputsOnly(i) /\ Queued(c) /\ cl[c].RoomID = heap[i].ID =>
      (tasks \ tasks') \cap TargetedSend(cl[c].UserID) # {}

\* C18: an input that changes the acting player's state (piece, board, score,
\* held piece or game-over flag) has a snapshot sent to the acting
\* participant's connection and, as its direct result, to no other
\* connection; an input that changes nothing sends no snapshot.
C18_SnapshotToSenderOnly ==
  [][ChangeIsAnswered /\ NoChangeNoSend /\ OnlyToSender]_vars

\* the frames of connection c in the input queue, oldest first
QueuedOf(c) ==
  LET own == SelectSeq(inputEvents, LAMBDA e : e.conn = c)
  IN [k \in 1..Len(own) |-> own[k].Action]

\* the loop takes a frame of connection c from the queue
FrameTaken(c) ==
  /\ cl[c] # Nil
  /\ Len(cl'[c].pending) < Len(cl[c].pending)

\* what is applied is the action `action` of connection c, and nothing else
AppliedAs(c, action, target) ==
  IF target = Nil THEN heap' = heap
  ELSE \E rnd \in Shuffles :
         heap' = [heap EXCEPT ![target.id][target.field] =
                    ApplyPlayerInput(@, action, rnd).state]

AppliedOldest(c) ==
  AppliedAs(c, Head(cl[c].pending),
            InputTarget([UserID |-> cl[c].UserID, Action |-> Head(cl[c].pending),
                         conn |-> c]))

\* C19: the inputs of one connection are applied in the order in which its
\* read pump received them: the connection's frames wait in the queue in the
\* order of receipt, and the frame the loop takes and applies is always the
\* oldest of them (frames are dropped, never reordered).
C19_InputsInOrder ==
  /\ [](\A c \in ClientIds : cl[c] # Nil => QueuedOf(c) = cl[c].pending)
  /\ [][\A c \in ClientIds : FrameTaken(c) =>
          /\ cl'[c].pending = Tail(cl[c].pending)
          /\ AppliedOldest(c)]_vars

\* the host's soft drop has been applied (one point, its targeted send has
\* not run yet) and the hard drop received behind it is still waiting
C19_Witness ==
  \E i \in SessionIds :
    /\ heap[i] # Nil /\ heap[i].Status = "playing"
    /\ heap[i].Player1.Score = 1
    /\ clients[PlayHost] # 0
    /\ cl[clients[PlayHost]].pending = <<"hard_drop">>
    /\ tasks # {}

\* a field of an existing session, or of one of its player states, is written
FieldWritten(i) == heap[i] # Nil /\ heap'[i] # Nil /\ heap'[i] # heap[i]

\* a step of the central loop: it receives from one of its channels or from
\* the ticker, or moves on inside the case it is in
LoopStep ==
  \/ loop' # loop
  \/ inputEvents # <<>> /\ inputEvents' = Tail(inputEvents)
  \/ broadcast # <<>> /\ broadcast' = Tail(broadcast)
  \/ registering' # registering /\ registering' \subseteq registering
  \/ nextTick' # nextTick

\* C20: every write to a field of a session (status, startedAt, endedAt,
\* Player2) or of a player state is a step of the central loop; the
\* matchmaking entry point, the start check, the delayed finalization and
\* the pumps write none of them.
C20_OnlyLoopWrites ==
  [][\A i \in SessionIds : FieldWritten(i) => LoopStep]_vars

\* the session in slot i is finished
Finished(i) == heap[i] # Nil /\ heap[i].Status = "finished"

\* C21: once a session's status is finished, no field of the session or of
\* its two player states changes again, whatever ticks, inputs and
\* finalization calls follow.
C21_FinishedIsFrozen ==
  [][\A i \in SessionIds : Finished(i) => heap'[i] = heap[i]]_vars

\* the PlayerState the engine is called on
EngineState == heap[EngineSlot].Player1

\* a call that locked the piece: the board has changed
Locked(s, r) == r.state.Board # s.Board

\* a hold on a state whose hold is used changes nothing and returns false; a
\* hold that takes effect uses the hold up
HoldOnce(s, h) ==
  /\ s.hasUsedHold => h = Unmoved(s)
  /\ h.moved => h.state.hasUsedHold

\* a used hold stays used until a call locks the piece
HoldKept(s, r) ==
  (s.hasUsedHold /\ ~r.state.hasUsedHold) => Locked(s, r)

PieceFits(s) == ~HasCollision(s.Board, s.CurrentPiece, 0, 0)

\* C23: after every call of ApplyPlayerInput, in any sequence of inputs and
\* auto-falls from a new PlayerState, the current piece does not collide
\* with the walls, the floor or occupied cells where it is, unless the
\* player is game-over.
C23_PieceNeverCollides ==
  /\ ~EngineState.IsGameOver => PieceFits(EngineState)
  /\ \A a \in EngineActions, rnd \in Shuffles :
       ~ApplyPlayerInput(EngineState, a, rnd).state.IsGameOver
          => PieceFits(ApplyPlayerInput(EngineState, a, rnd).state)

\* inputs have been applied on a stack that reaches the spawn rows: the
\* piece has been moved to the side and turned, and the game goes on
C23_Witness ==
  /\ ~EngineState.IsGameOver
  /\ budget.frames < MaxEngineCalls
  /\ EngineState.CurrentPiece.Rotation # 0
  /\ EngineState.CurrentPiece.X # spawnPieceAtCenter(EngineState.CurrentPiece.Type)[1]
  /\ \E x \in Cols : EngineState.Board[4][x] # BlockEmpty

\* the generator's output from the current piece on: the current piece, the
\* next piece and what waits in the queue
Stream(s) == <<s.CurrentPiece.Type, s.NextPiece.Type>> \o s.pieceQueue

NoRepeat(stream) ==
  \A i \in 1..(Len(stream) - 1) : stream[i] # stream[i + 1]

\* C24: in the stream of piece types delivered by successive
\* GetNextPieceFromQueue calls no two adjacent outputs are equal, the last
\* piece of a bag and the first piece of the next bag included, whatever the
\* shuffles.
C24_NoAdjacentRepeat == NoRepeat(Stream(EngineState))

\* the bag as generatePieceQueue appends it when its first piece repeats
Swapped(rnd) ==
  [rnd.bag EXCEPT ![1] = rnd.bag[rnd.swapIndex + 1],
                  ![rnd.swapIndex + 1] = rnd.bag[1]]

\* the bag at the end of the queue is a shuffle whose first piece was the
\* last piece of the bag before it, with that piece swapped away; pieces of
\* it have been drawn since
C24_Witness ==
  /\ budget.frames < MaxDraws
  /\ Len(EngineState.pieceQueue) >= 8
  /\ \E rnd \in BagShuffles :
       /\ rnd.bag[1] = EngineState.pieceQueue[Len(EngineState.pieceQueue) - 7]
       /\ SubSeq(EngineState.pieceQueue, Len(EngineState.pieceQueue) - 6,
                 Len(EngineState.pieceQueue)) = Swapped(rnd)

\* the seven outputs from index i on
Window(stream, i) == {stream[k] : k \in i..(i + 6)}

\* C25: every window of 7 consecutive outputs of the generator, starting at
\* any index of the stream, is a permutation of the seven piece types.
C25_EveryWindowIsABag ==
  \A i \in 1..(Len(Stream(EngineState)) - 6) :
    Window(Stream(EngineState), i) = PieceTypes

\* the rows of b that have no empty cell
FullLine(b, y) == \A x \in Cols : b[y][x] # BlockEmpty
FullLines(b) == {y \in Rows : FullLine(b, y)}

\* the score recorded for a cell, 10 when none is
RecordedScore(scores, y, x) ==
  IF <<y, x>> \in DOMAIN scores THEN scores[<<y, x>>] ELSE 10

RECURSIVE SumScores(_, _)
SumScores(scores, cells) ==
  IF cells = {} THEN 0
  ELSE LET c == CHOOSE c \in cells : TRUE
       IN RecordedScore(scores, c[1], c[2]) + SumScores(scores, cells \ {c})

\* C26: for every board and every per-cell score map, the points ClearLines
\* awards are the sum, over the full rows and their 10 columns, of the score
\* recorded for the cell, 10 for a cell with no recorded score; rows that
\* are not full add nothing.
C26_PointsAreFullRowScores ==
  ClearLines(EngineState.Board, EngineState.ContributionScores).totalScore
    = SumScores(EngineState.ContributionScores,
                FullLines(EngineState.Board) \X Cols)

\* a clear has paid for two full rows of a map that records only some of
\* their cells, and left a row with a hole in its last column on the floor
C26_Witness ==
  /\ budget.frames = MaxClears - 1
  /\ EngineState.LinesCleared = 2
  /\ ScoreKey(BoardHeight - 1, 1) \notin DOMAIN EngineState.ContributionScores
  /\ ScoreKey(BoardHeight - 1, 0) \in DOMAIN EngineState.ContributionScores
  /\ EngineState.Board[BoardHeight - 1] = GapRow(2, 9)

\* the full rows of b below row y
FullBelow(b, y) == Cardinality({z \in FullLines(b) : z > y})

\* after is b without its full rows: every other row has moved down by the
\* number of full rows below it, and the rows left over at the top are empty
Packed(b, after) ==
  /\ \A y \in Rows \ FullLines(b) : after[y + FullBelow(b, y)] = b[y]
  /\ \A y \in Rows : y < Cardinality(FullLines(b)) => after[y] = EmptyRow
  /\ FullLines(after) = {}

\* C27: after ClearLines exactly the full rows are gone: each other row has
\* kept its cells and moved down by the number of cleared rows below it, so
\* the rows keep their order and lie packed on the floor, the rows at the
\* top are empty and no full row is left; the number of rows cleared is the
\* number of full rows. A line clear of a lock stores this board.
C27_FullRowsRemovedRestPacked ==
  /\ Packed(EngineState.Board,
            ClearLines(EngineState.Board, EngineState.ContributionScores).Board)
  /\ ClearLines(EngineState.Board, EngineState.ContributionScores).clearedLines
       = Cardinality(FullLines(EngineState.Board))
  /\ LockLines(EngineState).Board
       = ClearLines(EngineState.Board, EngineState.ContributionScores).Board

\* a clear has removed three full rows, one of them the top row of the
\* board, and the two rows with holes lie on the floor in their old order
C27_Witness ==
  /\ budget.frames = MaxClears - 1
  /\ EngineState.LinesCleared = 3
  /\ EngineState.Board[BoardHeight - 1] = GapRow(3, 4)
  /\ EngineState.Board[BoardHeight - 2] = GapRow(1, 0)
  /\ EngineState.Board[BoardHeight - 3] = EmptyRow

\* the current piece of s where a hard drop puts it
LandedPiece(s) ==
  [s.CurrentPiece EXCEPT !.Y = @ + DropDistanceFrom(s.Board, s.CurrentPiece, 0)]

\* the current piece of s has a score payload of the deck
CarriesPayload(s) ==
  /\ s.CurrentPiece # Nil
  /\ DOMAIN s.CurrentPiece.ScoreData # {}

\* the deck's score of block i of the current piece
PayloadOf(s, i) == DeckBlockScore(DeckPieceOf(s, s.CurrentPiece.Type), i)

\* scores holds the payload of p, the landed current piece of s, at each
\* of its cells inside the board
PayloadWritten(s, p, scores) ==
  \A i \in 1..Len(Blocks(p)) :
    LET x == p.X + Blocks(p)[i][1]
        y == p.Y + Blocks(p)[i][2]
    IN (x >= 0 /\ x < BoardWidth /\ y >= 0 /\ y < BoardHeight)
         => scores[ScoreKey(y, x)] = PayloadOf(s, i)

\* C28: when a piece with a deck score payload locks, in any of its
\* rotations 0, 90, 180 and 270, the per-cell score at each of its landing
\* cells is the payload score of that block, both in the map the line
\* clear pays from and in the map the lock leaves.
C28_LockWritesPayload ==
  (~EngineState.IsGameOver /\ CarriesPayload(EngineState))
    => \A rnd \in Shuffles :
         /\ PayloadWritten(EngineState, LandedPiece(EngineState),
              updateContributionScoresFromPiece(
                EngineState, LandedPiece(EngineState)).ContributionScores)
         /\ PayloadWritten(EngineState, LandedPiece(EngineState),
              ApplyPlayerInput(EngineState, "hard_drop", rnd)
                .state.ContributionScores)

\* the current piece of s can go down one row
CanDescend(s) == ~HasCollision(s.Board, s.CurrentPiece, 0, 1)

\* r is s after one row of soft drop: the piece one row lower, one point
\* more and the fall timer started again at the time of the call
SoftDropStep(s, r, at) ==
  /\ r.CurrentPiece = [s.CurrentPiece EXCEPT !.Y = @ + 1]
  /\ r.Score = s.Score + 1
  /\ r.lastFallTime = at
  /\ r.Board = s.Board

\* r is s after its current piece was merged where it is and locked
SoftDropLock(s, r, rnd) ==
  r = handlePieceLock([s EXCEPT !.Board = MergePiece(s.Board, s.CurrentPiece)], rnd)

\* C29: soft_drop moves the current piece down one row, adds 1 to the score
\* and resets the fall timer when the piece can descend; when it cannot,
\* soft_drop merges the piece into the board and runs the lock sequence.
C29_SoftDropStepsOrLocks ==
  ~EngineState.IsGameOver
    => \A rnd \in Shuffles :
         IF CanDescend(EngineState)
         THEN SoftDropStep(EngineState,
                ApplyPlayerInput(EngineState, "soft_drop", rnd).state, now)
         ELSE SoftDropLock(EngineState,
                ApplyPlayerInput(EngineState, "soft_drop", rnd).state, rnd)

\* the largest number of rows the current piece of s can go down: it is
\* free at every offset up to d and collides at d + 1
DropRows(s) ==
  CHOOSE d \in 0..BoardHeight :
    /\ \A k \in 1..d : ~HasCollision(s.Board, s.CurrentPiece, 0, k)
    /\ HasCollision(s.Board, s.CurrentPiece, 0, d + 1)

\* the current piece of s, d rows lower
Lowered(s, d) == [s.CurrentPiece EXCEPT !.Y = @ + d]

\* s with its current piece merged d rows lower and 2 points per row paid
DroppedAndMerged(s, d) ==
  [s EXCEPT !.CurrentPiece = Lowered(s, d),
            !.Score = s.Score + 2 * d,
            !.Board = MergePiece(s.Board, Lowered(s, d))]

\* the cells of b under the blocks of p hold the block type of p
HoldsPiece(b, p) ==
  \A i \in 1..Len(Blocks(p)) :
    LET x == p.X + Blocks(p)[i][1]
        y == p.Y + Blocks(p)[i][2]
    IN (x \in Cols /\ y \in Rows) => b[y][x] = p.Type + 1

\* C30: hard_drop moves the current piece down by the largest number d of
\* rows for which it does not collide, adds 2 * d to the score, merges the
\* piece that was current before the call at that position and runs the
\* lock sequence, for every board and position, d = 0 included.
C30_HardDropMergesAtBottom ==
  ~EngineState.IsGameOver
    => \A rnd \in Shuffles :
         LET d == DropRows(EngineState)
             r == ApplyPlayerInput(EngineState, "hard_drop", rnd).state
         IN /\ r = handlePieceLock(DroppedAndMerged(EngineState, d), rnd)
            /\ HoldsPiece(DroppedAndMerged(EngineState, d).Board,
                          Lowered(EngineState, d))
            /\ FullLines(DroppedAndMerged(EngineState, d).Board) = {}
                 => /\ r.Board = DroppedAndMerged(EngineState, d).Board
                    /\ r.Score = EngineState.Score + 2 * d

\* inputs have brought a turned piece to rest on the stack, where a hard
\* drop goes down by no row
C30_Witness ==
  /\ ~EngineState.IsGameOver
  /\ budget.frames < MaxEngineCalls
  /\ DropRows(EngineState) = 0
  /\ EngineState.CurrentPiece.Rotation # 0
  /\ EngineState.Board # NewBoard

\* the rule bonus of a clear of k lines at the level, the clears in a row c
\* and the back-to-back flag b
RuleBonus(k, level, c, b) ==
  LET base == <<100, 300, 500, 800>>[k]
      total == base * level + (IF c > 1 THEN 50 * (c - 1) * level ELSE 0)
  IN IF b THEN total + total \div 2 ELSE total

\* r is s after a lock that cleared k lines worth `points` on the score map
LockPays(s, r, k, points) ==
  IF k > 0
  THEN /\ r.Score = s.Score + points
                    + RuleBonus(k, s.Level, s.ConsecutiveClears, s.BackToBack)
       /\ r.ConsecutiveClears = s.ConsecutiveClears + 1
       /\ r.BackToBack = (k = 4)
  ELSE /\ r.Score = s.Score
       /\ r.ConsecutiveClears = 0

\* C31: the rule bonus a lock adds when it clears k > 0 lines is base(k) *
\* level, base = 100, 300, 500, 800, plus 50 * (c - 1) * level when c > 1,
\* times 1.5 rounded down when the back-to-back flag holds, with level, c
\* and the flag as they were before the lock; afterwards the clears in a row
\* are c + 1 and the flag is (k = 4); a lock that clears nothing adds no
\* bonus and sets the clears in a row to 0.
C31_RuleBonus ==
  LockPays(EngineState, LockLines(EngineState),
           Cardinality(FullLines(EngineState.Board)),
           SumScores(EngineState.ContributionScores,
                     FullLines(EngineState.Board) \X Cols))

\* a lock has cleared four lines as the third clear in a row after a clear
\* of four, above level 1, and was paid more than the cells and the base
C31_Witness ==
  /\ budget.frames = MaxClears - 1
  /\ EngineState.ConsecutiveClears = 3
  /\ EngineState.BackToBack
  /\ EngineState.LinesCleared = 12
  /\ EngineState.Score = 4000 + ((800 * 2 + 50 * 2) * 3) \div 2

\* the gravity interval of a level, in ms
GravityInterval(level) == Max(100, 600 - (level - 1) * 40)

\* delays after the clock value of the state at which gravity is applied
FallDelays == {0, 50, 100, 119, 120, 599, 600, 1000}

\* r is s after gravity acted at clock value `at`
GravityStep(s, r, at, rnd) ==
  IF s.IsGameOver THEN r = s
  ELSE IF at - s.lastFallTime >= GravityInterval(s.Level)
  THEN IF CanDescend(s)
       THEN r = [s EXCEPT !.CurrentPiece.Y = @ + 1, !.lastFallTime = at]
       ELSE [r EXCEPT !.lastFallTime = 0]
              = [handlePieceLock(
                   [s EXCEPT !.Board = MergePiece(s.Board, s.CurrentPiece)], rnd)
                 EXCEPT !.lastFallTime = 0]
  ELSE r = s

\* C32: gravity applied to a player who is not game-over moves the piece
\* down one row and restarts the fall timer when now - lastFallTime is at
\* least max(100 ms, 600 ms - (level - 1) * 40 ms) and the row below is
\* free, merges and locks the piece when the row below is not free, and
\* leaves the player unchanged when the interval has not elapsed; a
\* game-over player is never moved.
C32_GravityAfterInterval ==
  \A d \in FallDelays, rnd \in Shuffles :
    GravityStep(EngineState, AutoFall(EngineState, now + d, rnd), now + d, rnd)

\* the connection of SpecConn and the frame a task sends to it
ConnState == cl[ConnSlot]
ConnFrame == ToLightweight(heap[EngineSlot], now)

\* SafeSend on c: refused without a change when c is closed or full, and
\* the frame appended at the end otherwise
SendOutcome(c, m) ==
  IF c.closed \/ Len(c.Send) >= ChannelCap
  THEN ~SafeSendOk(c) /\ SafeSend(c, m) = c
  ELSE /\ SafeSendOk(c)
       /\ SafeSend(c, m).Send = Append(c.Send, m)
       /\ ~SafeSend(c, m).closed

\* a step leaves a closed queue closed and puts nothing into it
ClosedStaysClosed ==
  ConnState.closed
    => /\ ConnState'.closed
       /\ \/ ConnState'.Send = ConnState.Send
          \/ (ConnState.Send # <<>> /\ ConnState'.Send = Tail(ConnState.Send))

\* C33: for every interleaving of SafeSend and SafeClose calls of several
\* tasks on one connection, nothing is put into a closed outbound queue,
\* the queue is closed at most once (a SafeClose on a closed queue does
\* nothing and the queue never opens again), a SafeSend can always be
\* taken to its end, the queue never holds more than its capacity, and
\* SafeSend refuses without enqueuing when the queue is full or closed.
C33_SendAndCloseAreSafe ==
  [][/\ ClosedStaysClosed
     /\ SendOutcome(ConnState, ConnFrame)
     /\ Len(ConnState.Send) <= ChannelCap
     /\ ConnState.closed => SafeClose(ConnState) = ConnState
     /\ ConnSend(ConnSlot) => cl' = [cl EXCEPT ![ConnSlot] = SafeSend(@, ConnFrame)]
     /\ budget.frames > 0 => ENABLED ConnSend(ConnSlot)]_vars

\* sends have filled the queue, one more was refused, and the queue was
\* closed while full
C33_Witness ==
  /\ Len(ConnState.Send) = ChannelCap
  /\ ConnState.closed
  /\ budget.frames = MaxConnSends - 3
  /\ budget.advances = MaxPumpWrites

\* the write pump of the connection is running with n failed writes in a row
PumpAt(n) == PumpOf(ConnSlot, n) \in tasks

\* the write pump returns in this step
PumpStops == ConnState.wp = "run" /\ ConnState'.wp = "done"

\* a write of the pump fails in this step: a frame of the queue or a ping
WriteFails(n) ==
  \/ PumpWrite(ConnSlot, n, FALSE)
  \/ PumpPing(ConnSlot, n, FALSE)

\* C34: the write pump keeps running after one or two failed frame writes
\* in a row and returns at the third, starts counting again after a write
\* that succeeds, and returns when the outbound queue is closed; it returns
\* for no other reason, and when it returns the connection is closed.
C34_PumpStopsAtThirdFailure ==
  [][/\ \A n \in 0..1 : WriteFails(n) => (~PumpStops /\ PumpAt(n + 1)')
     /\ WriteFails(2) => PumpStops
     /\ \A n \in 0..2 : PumpWrite(ConnSlot, n, TRUE) => (~PumpStops /\ PumpAt(0)')
     /\ PumpStops => (\/ PumpAt(2)
                      \/ (ConnState.closed /\ ConnState.Send = <<>>))
     /\ PumpStops => ~ConnState'.connOpen]_vars

\* EndGameSession finalizes the session of slot i in this step
FinalizedNow(i) ==
  /\ heap[i] # Nil /\ heap[i].Status # "finished"
  /\ heap'[i] # Nil /\ heap'[i].Status = "finished"

\* the time limit of a playing session has elapsed
LimitElapsed(gs, at) ==
  gs.Status = "playing" /\ at - gs.StartedAt >= gs.TimeLimit

\* C35: when EndGameSession finalizes a session whose time limit has
\* elapsed, the reason it determines is the time limit; it determines a
\* game-over or another reason only when the limit had not elapsed.
C35_TimeUpIsTheReason ==
  [][\A i \in SessionIds :
       FinalizedNow(i) =>
         (LimitElapsed(heap[i], now) <=> EndReason(heap'[i], now) = "TIME LIMIT")]_vars

\* C36: a delayed finalization, scheduled two seconds after both players of
\* a session were seen game-over, finishes only that session: it never
\* finishes a later session of the same passphrase, whose players were not
\* both game-over when the call was scheduled and are not when it runs.
C36_DelayedEndKeepsToItsSession ==
  [][\A p \in Passcodes, w \in Wakes :
       DelayedEnd(p, w) =>
         \A i \in SessionIds : FinalizedNow(i) => BothGameOver(heap[i])]_vars

\* the connection the loop is unregistering was replaced by a newer one of
\* the same user
Superseded(c) ==
  /\ cl[c] # Nil
  /\ clients[cl[c].UserID] \notin {0, c}

\* C37: when a participant's connection was replaced by a new one while the
\* room is playing, the loop's handling of the unregister event of the
\* superseded connection neither removes the new connection from the
\* registry nor finishes the session.
C37_SupersededUnregisterIsHarmless ==
  [][(/\ loop.pc \in {"unregister", "left"}
      /\ Superseded(loop.client)
      /\ LoopUnregister \/ LoopUnregisterLeft)
       => /\ clients' = clients
          /\ \A i \in SessionIds : ~FinalizedNow(i)]_vars

\* a player's score never goes down in the course of a session and the
\* status only moves on: a snapshot taken later shows no smaller score and
\* no earlier status
StatusRank(status) ==
  IF status = "waiting" THEN 0 ELSE IF status = "playing" THEN 1 ELSE 2

NotOlderPlayer(later, earlier) ==
  earlier # Nil => later # Nil /\ later.Score >= earlier.Score

NotOlder(later, earlier) ==
  /\ StatusRank(later.Status) >= StatusRank(earlier.Status)
  /\ NotOlderPlayer(later.Player1, earlier.Player1)
  /\ NotOlderPlayer(later.Player2, earlier.Player2)

\* C38: the snapshots in one connection's outbound queue never go
\* backwards: under every interleaving of targeted sends and broadcasts
\* each queued frame shows a state of the session at least as recent as
\* the frame queued before it.
C38_QueuedSnapshotsNeverGoBack ==
  \A i \in ClientIds :
    cl[i] # Nil =>
      \A k \in 1..(Len(cl[i].Send) - 1) :
        NotOlder(cl[i].Send[k + 1], cl[i].Send[k])

\* the cells of the landed piece p that lie in rows of b that are not full
SurvivingCells(b, p) ==
  {<<p.Y + Blocks(p)[i][2], p.X + Blocks(p)[i][1]>> : i \in 1..Len(Blocks(p))}
    \cap {c \in Rows \X Cols : ~FullLine(b, c[1])}

\* C39: a line clear changes only the board, never the per-cell score map.
\* The map a lock leaves is the map as it was when the payload of the piece
\* had been written and before the rows were cleared; a block of the locked
\* piece that survives the clear lies lower by the number of full rows
\* below it, and the score recorded at its new coordinate is the one that
\* was stored at that coordinate before the clear.
C39_ClearLeavesScoreMap ==
  ~EngineState.IsGameOver
    => \A rnd \in Shuffles :
         LET m == DroppedAndMerged(EngineState, DropRows(EngineState))
             w == updateContributionScoresFromPiece(m, m.CurrentPiece)
             r == ApplyPlayerInput(EngineState, "hard_drop", rnd).state
         IN /\ LockLines(w).ContributionScores = w.ContributionScores
            /\ r.ContributionScores = w.ContributionScores
            /\ r.Board = ClearLines(m.Board, w.ContributionScores).Board
            /\ \A c \in SurvivingCells(m.Board, m.CurrentPiece) :
                 /\ r.Board[c[1] + FullBelow(m.Board, c[1])][c[2]]
                      = m.CurrentPiece.Type + 1
                 /\ RecordedScore(r.ContributionScores,
                                  c[1] + FullBelow(m.Board, c[1]), c[2])
                      = RecordedScore(w.ContributionScores,
                                      c[1] + FullBelow(m.Board, c[1]), c[2])

\* the deck places every type; a T piece has locked with its three lower
\* blocks in a row that the lock has cleared: its top block, locked with
\* the score of the first block of the placement, lies on the floor, where
\* the score recorded is the one of the third block
C39_Witness ==
  /\ budget.frames = MaxLockCalls - 1
  /\ Len(EngineState.DeckPlacements) = 7
  /\ EngineState.LinesCleared = 1
  /\ \E x \in Cols :
       /\ EngineState.Board[BoardHeight - 1]
            = [c \in Cols |-> IF c = x THEN TypeT + 1 ELSE BlockEmpty]
       /\ EngineState.ContributionScores[ScoreKey(BoardHeight - 1, x)]
            = DeckPlacementOf(TypeT, 4).Blocks[3].Score
       /\ DeckPlacementOf(TypeT, 4).Blocks[3].Score
            # DeckPlacementOf(TypeT, 4).Blocks[1].Score

\* the session registered under p is waiting
WaitingRoom(p) ==
  sessions[p] # 0 /\ heap[sessions[p]].Status = "waiting"

\* a step of the central loop: one of the cases of its select, or the
\* continuation of one
LoopEvent ==
  \/ \E c \in ClientIds : LoopRegister(c)
  \/ LoopUnregister
  \/ LoopUnregisterLeft
  \/ LoopEndCleanup
  \/ \E r \in Shuffles : LoopInput(r)
  \/ LoopBroadcast
  \/ LoopTick
  \/ \E id \in SessionIds, r \in Shuffles : LoopTickSession(id, r)

\* C40: no event handled by the central loop (tick, unregister, input,
\* broadcast) finishes or removes a waiting session: the session stays in
\* the registry in status waiting, also when its players disconnect, and a
\* join of its passphrase by its Player1 is rejected.
C40_LoopKeepsWaitingSessions ==
  /\ [](\A p \in Passcodes :
          WaitingRoom(p) =>
            JoinResult(p, heap[sessions[p]].Player1.UserID).err # "none")
  /\ [][LoopEvent =>
          \A p \in Passcodes :
            WaitingRoom(p) =>
              /\ sessions'[p] = sessions[p]
              /\ heap'[sessions[p]] # Nil
              /\ heap'[sessions[p]].Status = "waiting"]_vars

\* the host of a waiting room has gone: the loop has unregistered the
\* host's connection and is back in its select, and the room is still
\* registered and waiting
C40_Witness ==
  /\ loop = Idle
  /\ \E p \in Passcodes :
       /\ WaitingRoom(p)
       /\ clients[heap[sessions[p]].Player1.UserID] = 0
       /\ \E i \in ClientIds :
            /\ cl[i] # Nil
            /\ cl[i].UserID = heap[sessions[p]].Player1.UserID
            /\ cl[i].RoomID = p
            /\ cl[i].closed
            /\ cl[i].rp = "done"

====
